---- MODULE Spec2Model ----
(***************************************************************************)
(* FlickPractice: the flick keyboard (FlickKeyboard), the practice-text    *)
(* generator (CharacterGenerator) and the game screen (GameScreen) with    *)
(* its dakuten/handakuten composition, countdown and game timers.          *)
(*                                                                         *)
(* Characters are written in romaji, TLA+ strings being ASCII:             *)
(*   "ka" = か   "ha" = は   "ga" = が   "ba" = ば   "pa" = ぱ               *)
(*   "dkt" = ゛ (the dakuten key)   "hdk" = ゜ (the handakuten character)   *)
(***************************************************************************)
EXTENDS Integers, Sequences, FiniteSets, TLC

VARIABLES
    game,          \* the GameScreen instance (one per application, main.ts:30)
    kb,            \* the FlickKeyboard instance game.flickKeyboard refers to
    intervals,     \* the browser's running setInterval timers
    dom,           \* the key elements' data-flick-direction and the document listener
    screen,        \* the screen the ScreenManager shows
    navData,       \* the data handed to the last navigateTo
    pointer,       \* the user's finger and mouse button
    lastInput,     \* the release the last step handled and its call of the input callback
    probe          \* the last call made on a FlickKeyboard driven on its own

vars == <<game, kb, intervals, dom, screen, navData, pointer, lastInput, probe>>

(***************************************************************************)
(* Bounds of the model.                                                    *)
(***************************************************************************)
\* strokes a session may commit before the model stops feeding inputs
MaxStrokes == 2
\* config.game.duration (seconds), scaled down
Duration == 2
\* config.game.countdownSeconds, scaled down
CountdownSeconds == 2
\* config.ui.flickThreshold (pixels), scaled down
FlickThreshold == 2
\* config.ui.visibleCharsAfter, chosen so that the track has to grow
VisibleCharsAfter == 49

(***************************************************************************)
(* Program constants.                                                      *)
(***************************************************************************)
\* render: this.generator.generate(100)
InitialChars == 100
\* renderTrack: this.generator.generate(50)
ChunkChars == 50
\* renderTrack: while (this.characters.length < endIndex + 50)
LookAhead == 50

Null == "null"
NoKey == -1
NoGenerator == -1

Directions == {"center", "up", "down", "left", "right"}

(***************************************************************************)
(* Configuration (Config): a layout, the diacritic maps and a weight       *)
(* table, each a part of the default configuration's hiragana data.        *)
(***************************************************************************)
FlickKey(c, u, d, l, r) == [center |-> c, up |-> u, down |-> d, left |-> l, right |-> r]

\* config.flickLayout.hiragana; key i of the source is HiraganaLayout[i + 1]
HiraganaLayout ==
    << FlickKey("ka", Null, Null, Null, Null),
       FlickKey("ha", Null, Null, Null, Null),
       FlickKey("dkt", Null, Null, "hdk", Null) >>

\* config.flickLayout.alphabet
AlphabetLayout ==
    << FlickKey("a", Null, Null, "b", Null),
       FlickKey("d", "e", Null, Null, Null) >>

\* config.dakutenMap, as Object.entries lists it: <<base, voiced>>
DakutenMap == << <<"ka", "ga">>, <<"ha", "ba">> >>

\* config.handakutenMap: <<base, semi-voiced>>
HandakutenMap == << <<"ha", "pa">> >>

\* config.generator.hiraganaWeights, as Object.keys lists it: <<character, weight>>
HiraganaWeights == << <<"ka", 2>>, <<"ga", 1>>, <<"ba", 1>>, <<"pa", 1>> >>

\* the Config a FlickKeyboard is constructed with: the parts it reads
Config(hiragana, alphabet, dakutenMap, handakutenMap) ==
    [flickLayout |-> [hiragana |-> hiragana, alphabet |-> alphabet],
     dakutenMap |-> dakutenMap, handakutenMap |-> handakutenMap]

\* the configuration of the sessions
DefaultConfig == Config(HiraganaLayout, AlphabetLayout, DakutenMap, HandakutenMap)

\* the seeds offered to a session, and the pointer positions offered to an event
Seeds == {0, 1}
CoordsX == {0, FlickThreshold}
CoordsY == {0, FlickThreshold}
KeyIndexes == 0..(Len(HiraganaLayout) - 1)

\* Object.values(map)
MapValues(map) == {map[i][2] : i \in 1..Len(map)}

\* map[key], Null standing for undefined
MapGet(map, key) ==
    IF \E i \in 1..Len(map) : map[i][1] = key
    THEN map[CHOOSE i \in 1..Len(map) : map[i][1] = key][2]
    ELSE Null

(***************************************************************************)
(* SeededRandom (engine/seededRandom): a linear congruential generator     *)
(* with integer state, and the weighted pick by cumulative sum.            *)
(***************************************************************************)
RngModulus == 65536
RngMultiplier == 25173
RngIncrement == 13849

\* new SeededRandom(seed)
SeededRandomNew(seed) == seed % RngModulus

\* next(): the state after one draw; the draw is state / RngModulus in [0,1)
RandomNext(state) == (RngMultiplier * state + RngIncrement) % RngModulus

RECURSIVE SumWeights(_, _)
SumWeights(weights, n) == IF n = 0 THEN 0 ELSE SumWeights(weights, n - 1) + weights[n]

\* weightedPick(items, weights) with the draw the state after next() stands for:
\* the first item whose cumulative weight exceeds draw * total
WeightedPick(items, weights, state) ==
    LET total == SumWeights(weights, Len(weights))
        i == CHOOSE k \in 1..Len(items) :
                /\ SumWeights(weights, k) * RngModulus > state * total
                /\ \A j \in 1..(k - 1) : SumWeights(weights, j) * RngModulus <= state * total
    IN items[i]

(***************************************************************************)
(* CharacterGenerator                                                      *)
(***************************************************************************)
\* constructor: this.characters = Object.keys(weightConfig)
GeneratorCharacters == [i \in 1..Len(HiraganaWeights) |-> HiraganaWeights[i][1]]

\* constructor: this.weights = this.characters.map(c => weightConfig[c])
GeneratorWeights == [i \in 1..Len(HiraganaWeights) |-> HiraganaWeights[i][2]]

\* config.generator.alphabetWeights, as Object.keys lists it
AlphabetWeights == << <<"a", 3>>, <<"b", 1>>, <<"e", 2>> >>

\* constructor: the weight table of the input mode
WeightConfig(inputMode) ==
    IF inputMode = "hiragana" THEN HiraganaWeights ELSE AlphabetWeights

\* new CharacterGenerator(seed, config, inputMode)
CharacterGeneratorNew(seed, inputMode) ==
    LET weightConfig == WeightConfig(inputMode)
    IN [random |-> SeededRandomNew(seed),
        characters |-> [i \in 1..Len(weightConfig) |-> weightConfig[i][1]],
        weights |-> [i \in 1..Len(weightConfig) |-> weightConfig[i][2]]]

\* a slip: every character is put in front of the result
RECURSIVE GenerateLoopPrepending(_, _, _, _, _)
GenerateLoopPrepending(characters, weights, random, length, result) ==
    IF Len(result) >= length THEN <<result, random>>
    ELSE GenerateLoopPrepending(characters, weights, RandomNext(random), length,
                                <<WeightedPick(characters, weights, RandomNext(random))>>
                                    \o result)

\* generate(length)'s loop over a generator's characters and weights with
\* `result` so far: <<the string, the generator's random state afterwards>>
RECURSIVE GenerateLoopOf(_, _, _, _, _)
GenerateLoopOf(characters, weights, random, length, result) ==
    IF Len(result) >= length THEN <<result, random>>
    ELSE GenerateLoopOf(characters, weights, RandomNext(random), length,
                        Append(result, WeightedPick(characters, weights,
                                                    RandomNext(random))))

\* generate(length)'s loop of the sessions' generator
GenerateLoop(random, length, result) ==
    GenerateLoopOf(GeneratorCharacters, GeneratorWeights, random, length, result)

\* generate(length) of the sessions' generator
Generate(random, length) == GenerateLoop(random, length, <<>>)

\* a slip: a call draws once before its first character
GenerateOnSkipping(gen, length) ==
    LET r == GenerateLoopOf(gen.characters, gen.weights, RandomNext(gen.random), length, <<>>)
    IN << r[1], [gen EXCEPT !.random = r[2]] >>

\* generate(length) on a generator: <<the string, the generator afterwards>>
GenerateOn(gen, length) ==
    LET r == GenerateLoopOf(gen.characters, gen.weights, gen.random, length, <<>>)
    IN << r[1], [gen EXCEPT !.random = r[2]] >>

(***************************************************************************)
(* FlickKeyboard: the character index and the diacritic lookups.           *)
(***************************************************************************)
\* Map.set(key, value)
MapSet(m, k, v) == (k :> v) @@ m

EmptyMap == [x \in {} |-> Null]

\* getLayout() of a keyboard constructed with config
GetLayoutOf(config, inputMode) ==
    IF inputMode = "hiragana" THEN config.flickLayout.hiragana
    ELSE config.flickLayout.alphabet

\* getLayout()
GetLayout(inputMode) == GetLayoutOf(DefaultConfig, inputMode)

\* one slot of buildCharToKeyMap's loop body: if (key.up) { set(key.up, ...) }
SetSlot(m, char, v) == IF char # Null THEN MapSet(m, char, v) ELSE m

\* buildCharToKeyMap's loop over the layout, from key i on; m is
\* <<charToKey, charToKeyIndex>> and key i of the source is layout[i + 1]; the
\* pair is evaluated at each key, as the loop sets each key's entries in turn
RECURSIVE BuildKeys(_, _, _)
BuildKeys(layout, i, m) ==
    IF i >= Len(layout) \/ Len(m) # 2 THEN m
    ELSE LET key == layout[i + 1]
             Put(mm, char) == << SetSlot(mm[1], char, key), SetSlot(mm[2], char, i) >>
             m0 == << MapSet(m[1], key.center, key), MapSet(m[2], key.center, i) >>
             m1 == Put(m0, key.up)
             m2 == Put(m1, key.down)
             m3 == Put(m2, key.left)
             m4 == Put(m3, key.right)
         IN BuildKeys(layout, i + 1, m4)

\* a slip: an entry the index already holds is overwritten
RECURSIVE AddMappingsOverwriting(_, _, _)
AddMappingsOverwriting(map, i, m) ==
    IF i > Len(map) THEN m
    ELSE LET base == map[i][1]
             marked == map[i][2]
             m1 == IF base \in DOMAIN m[1] /\ base \in DOMAIN m[2]
                   THEN << MapSet(m[1], marked, m[1][base]), MapSet(m[2], marked, m[2][base]) >>
                   ELSE m
         IN AddMappingsOverwriting(map, i + 1, m1)

\* one loop of addDakutenMappings over a diacritic map, from entry i on
RECURSIVE AddMappings(_, _, _)
AddMappings(map, i, m) ==
    IF i > Len(map) THEN m
    ELSE LET base == map[i][1]
             marked == map[i][2]
             m1 == IF marked \notin DOMAIN m[1] /\ base \in DOMAIN m[1] /\ base \in DOMAIN m[2]
                   THEN << MapSet(m[1], marked, m[1][base]), MapSet(m[2], marked, m[2][base]) >>
                   ELSE m
         IN AddMappings(map, i + 1, m1)

\* addDakutenMappings() of a keyboard constructed with config
AddDakutenMappingsOf(config, m) ==
    AddMappings(config.handakutenMap, 1, AddMappings(config.dakutenMap, 1, m))

\* addDakutenMappings()
AddDakutenMappings(m) == AddDakutenMappingsOf(DefaultConfig, m)

\* buildCharToKeyMap() of a keyboard constructed with config, on the maps as
\* they are: <<charToKey, charToKeyIndex>>
BuildCharToKeyMapOf(config, inputMode, m) ==
    LET built == BuildKeys(GetLayoutOf(config, inputMode), 0, m)
    IN IF inputMode = "hiragana" THEN AddDakutenMappingsOf(config, built) ELSE built

\* buildCharToKeyMap()
BuildCharToKeyMap(inputMode, m) == BuildCharToKeyMapOf(DefaultConfig, inputMode, m)

\* getKeyIndexForChar(char)
GetKeyIndexForChar(k, char) ==
    IF char \in DOMAIN k.charToKeyIndex THEN k.charToKeyIndex[char] ELSE -1

\* a slip: the base is not checked
RECURSIVE FirstWithValue(_, _, _)
FirstWithValue(map, i, char) ==
    IF i > Len(map) THEN 0
    ELSE IF map[i][2] = char THEN i
    ELSE FirstWithValue(map, i + 1, char)

\* the first entry from i on with this value whose base is no value of the map, or 0
RECURSIVE FirstUnchained(_, _, _)
FirstUnchained(map, i, char) ==
    IF i > Len(map) THEN 0
    ELSE IF map[i][2] = char /\ map[i][1] \notin MapValues(map) THEN i
    ELSE FirstUnchained(map, i + 1, char)

\* getBaseChar(char) of a keyboard constructed with config
GetBaseCharOf(config, char) ==
    LET d == FirstUnchained(config.dakutenMap, 1, char)
        h == FirstUnchained(config.handakutenMap, 1, char)
    IN IF d # 0 THEN config.dakutenMap[d][1]
       ELSE IF h # 0 THEN config.handakutenMap[h][1]
       ELSE Null

\* getBaseChar(char)
GetBaseChar(char) == GetBaseCharOf(DefaultConfig, char)

\* needsDakuten(char) of a keyboard constructed with config: "dakuten",
\* "handakuten" or Null
NeedsDakutenOf(config, char) ==
    IF /\ char \in MapValues(config.dakutenMap)
       /\ FirstUnchained(config.dakutenMap, 1, char) # 0
    THEN "dakuten"
    ELSE IF /\ char \in MapValues(config.handakutenMap)
            /\ FirstUnchained(config.handakutenMap, 1, char) # 0
    THEN "handakuten"
    ELSE Null

\* needsDakuten(char)
NeedsDakuten(char) == NeedsDakutenOf(DefaultConfig, char)

\* getKeyForChar(char): the key, or Null
GetKeyForChar(k, char) ==
    IF char \in DOMAIN k.charToKey THEN k.charToKey[char] ELSE Null

\* a slip: the side slots of the key are not compared
GetDirectionForCharVertical(k, char) ==
    IF char \notin DOMAIN k.charToKey THEN Null
    ELSE LET key == k.charToKey[char]
         IN IF key.center = char THEN "center"
            ELSE IF key.up = char THEN "up"
            ELSE IF key.down = char THEN "down"
            ELSE Null

\* getDirectionForChar(char)
GetDirectionForChar(k, char) ==
    IF char \notin DOMAIN k.charToKey THEN Null
    ELSE LET key == k.charToKey[char]
         IN IF key.center = char THEN "center"
            ELSE IF key.up = char THEN "up"
            ELSE IF key.down = char THEN "down"
            ELSE IF key.left = char THEN "left"
            ELSE IF key.right = char THEN "right"
            ELSE Null

\* a slip: a vector as long as the threshold is still a tap
BelowThresholdInclusive(threshold, dx, dy) ==
    threshold >= 0 /\ dx * dx + dy * dy <= threshold * threshold

\* distance < this.config.ui.flickThreshold, distance being
\* Math.sqrt(dx * dx + dy * dy): on integers, dx*dx + dy*dy < threshold*threshold
\* for a positive threshold and false for any other
BelowThreshold(threshold, dx, dy) ==
    threshold > 0 /\ dx * dx + dy * dy < threshold * threshold

\* a slip: the comparison is strict, angle > degrees
AngleAbove(dx, dy, degrees) ==
    CASE degrees = -135 -> dy >= 0 \/ dx > dy
      [] degrees = -45 -> dy >= 0 \/ dx > -dy
      [] degrees = 45 -> (dy > 0 /\ dx < dy) \/ (dy = 0 /\ dx < 0)
      [] degrees = 135 -> (dy > 0 /\ dx < -dy) \/ (dy = 0 /\ dx < 0)

\* angle >= degrees, angle being Math.atan2(dy, dx) * (180 / Math.PI) in
\* (-180, 180], for the four bounds the code compares with.  atan2(0, 0) is 0,
\* atan2(0, dx) is 180 for a negative dx, and on the diagonals the angle is
\* -135, -45, 45 or 135 exactly.
AngleAtLeast(dx, dy, degrees) ==
    CASE degrees = -135 -> dy >= 0 \/ dx >= dy
      [] degrees = -45 -> dy >= 0 \/ dx >= -dy
      [] degrees = 45 -> (dy > 0 /\ dx <= dy) \/ (dy = 0 /\ dx < 0)
      [] degrees = 135 -> (dy > 0 /\ dx <= -dy) \/ (dy = 0 /\ dx < 0)

\* a slip: the screen's y axis is taken to point up
AngleBucketYUp(dx, dy) ==
    IF AngleAtLeast(dx, dy, -45) /\ ~AngleAtLeast(dx, dy, 45) THEN "right"
    ELSE IF AngleAtLeast(dx, dy, 45) /\ ~AngleAtLeast(dx, dy, 135) THEN "up"
    ELSE IF AngleAtLeast(dx, dy, -135) /\ ~AngleAtLeast(dx, dy, -45) THEN "down"
    ELSE "left"

\* the if / else if chain on the angle
AngleBucket(dx, dy) ==
    IF AngleAtLeast(dx, dy, -45) /\ ~AngleAtLeast(dx, dy, 45) THEN "right"
    ELSE IF AngleAtLeast(dx, dy, 45) /\ ~AngleAtLeast(dx, dy, 135) THEN "down"
    ELSE IF AngleAtLeast(dx, dy, -135) /\ ~AngleAtLeast(dx, dy, -45) THEN "up"
    ELSE "left"

\* calculateDirection(endX, endY) of a keyboard whose config.ui.flickThreshold
\* is threshold and whose gesture started at (startX, startY)
CalculateDirectionOf(threshold, startX, startY, endX, endY) ==
    LET dx == endX - startX
        dy == endY - startY
    IN IF BelowThreshold(threshold, dx, dy) THEN "center" ELSE AngleBucket(dx, dy)

\* calculateDirection(endX, endY)
CalculateDirection(startX, startY, endX, endY) ==
    CalculateDirectionOf(FlickThreshold, startX, startY, endX, endY)

\* getCharacterForDirection(direction); the active key is layout[activeKey + 1]
GetCharacterForDirection(k, direction) ==
    IF k.activeKey = NoKey THEN Null
    ELSE GetLayout(k.inputMode)[k.activeKey + 1][direction]

\* new FlickKeyboard(config, inputMode)
FlickKeyboardOf(config, inputMode) ==
    LET m == BuildCharToKeyMapOf(config, inputMode, <<EmptyMap, EmptyMap>>)
    IN [inputMode |-> inputMode, startX |-> 0, startY |-> 0,
        activeKey |-> NoKey, activeKeyIndex |-> -1,
        charToKey |-> m[1], charToKeyIndex |-> m[2],
        isDragging |-> FALSE, onInput |-> FALSE]

\* new FlickKeyboard(this.config, inputMode) with the sessions' configuration
FlickKeyboardNew(inputMode) == FlickKeyboardOf(DefaultConfig, inputMode)

\* a slip: the index is rebuilt on top of the entries it holds
SetInputModeUncleared(config, k, mode) ==
    LET m == BuildCharToKeyMapOf(config, mode, <<k.charToKey, k.charToKeyIndex>>)
    IN [k EXCEPT !.inputMode = mode, !.charToKey = m[1], !.charToKeyIndex = m[2]]

\* setInputMode(mode) of a keyboard constructed with config: clear() on both
\* maps, then buildCharToKeyMap()
SetInputMode(config, k, mode) ==
    LET m == BuildCharToKeyMapOf(config, mode, <<EmptyMap, EmptyMap>>)
    IN [k EXCEPT !.inputMode = mode, !.charToKey = m[1], !.charToKeyIndex = m[2]]

\* FlickKeyboard.cleanup()
KeyboardCleanup(k) ==
    [k EXCEPT !.onInput = FALSE, !.activeKey = NoKey, !.activeKeyIndex = -1,
              !.isDragging = FALSE]

(***************************************************************************)
(* GameScreen: the composition state machine (handleFlickInput).           *)
(***************************************************************************)
\* a FlickStroke; the timestamp (Date.now() - startTime) is wall-clock time and is
\* not part of the model
Stroke(input, expected, correct, direction) ==
    [input |-> input, expected |-> expected, correct |-> correct,
     flickDirection |-> direction]

\* renderTrack(): while (this.characters.length < endIndex + 50) generate(50)
RECURSIVE RenderTrack(_)
RenderTrack(g) ==
    IF Len(g.characters) < g.currentIndex + VisibleCharsAfter + LookAhead
    THEN LET more == Generate(g.generator, ChunkChars)
         IN RenderTrack([g EXCEPT !.characters = g.characters \o more[1],
                                  !.generator = more[2]])
    ELSE g

\* const expected = this.characters[this.currentIndex]
Expected(g) == g.characters[g.currentIndex + 1]

\* a slip in the guard: the running flag is not negated
InputAcceptedUnnegated(g) == ~(g.isCountdown \/ g.isRunning)

\* a slip: the countdown lets inputs through
InputAcceptedInCountdown(g) == g.isCountdown \/ g.isRunning

\* if (this.isCountdown || !this.isRunning) return
InputAccepted(g) == ~(g.isCountdown \/ ~g.isRunning)

\* a slip: only the count is reset, the base and the kind stay
ClearPendingCountOnly(g) == [g EXCEPT !.pendingDakutenCount = 0]

\* this.pendingBaseChar = null; this.pendingDakutenType = null;
\* this.pendingDakutenCount = 0
ClearPending(g) ==
    [g EXCEPT !.pendingBaseChar = Null, !.pendingDakutenType = Null,
              !.pendingDakutenCount = 0]

\* a slip: the stroke is pushed and the cursor stays
PushWithoutAdvance(g, stroke) ==
    RenderTrack([g EXCEPT !.strokes = Append(g.strokes, stroke)])

\* a slip: the track is not rendered after the cursor has moved
PushUnrendered(g, stroke) ==
    [g EXCEPT !.strokes = Append(g.strokes, stroke),
              !.currentIndex = g.currentIndex + 1]

\* a slip: the stroke is put at the head of the log
PushAtFront(g, stroke) ==
    RenderTrack([g EXCEPT !.strokes = <<stroke>> \o g.strokes,
                          !.currentIndex = g.currentIndex + 1])

\* this.strokes.push(stroke) ... this.currentIndex++; this.renderTrack()
PushAndAdvance(g, stroke) ==
    RenderTrack([g EXCEPT !.strokes = Append(g.strokes, stroke),
                          !.currentIndex = g.currentIndex + 1])

\* a slip: one press is enough
StillWaitingOnePress(count) == count < 1

\* if (this.pendingDakutenCount < 2): the first press of two only counts
StillWaiting(count) == count < 2

\* a slip: the two maps are swapped
DiacriticMapSwapped(mark) == IF mark = "dkt" THEN HandakutenMap ELSE DakutenMap

\* const map = char === '゛' ? this.config.dakutenMap : this.config.handakutenMap
DiacriticMap(mark) == IF mark = "dkt" THEN DakutenMap ELSE HandakutenMap

\* the branch char === '゛' || char === '゜' with a pending base character
ResolvePending(g, char, direction) ==
    LET expected == Expected(g)
        counted == g.pendingDakutenType = "handakuten" /\ char = "dkt"
        count == IF counted THEN g.pendingDakutenCount + 1 ELSE g.pendingDakutenCount
        g1 == [g EXCEPT !.pendingDakutenCount = count]
    IN IF counted /\ StillWaiting(count) THEN g1
       ELSE LET mark == IF counted THEN "hdk" ELSE char
                converted == MapGet(DiacriticMap(mark), g.pendingBaseChar)
            IN IF converted # Null /\ converted = expected
               THEN PushAndAdvance(ClearPending(g1),
                                   Stroke(converted, expected, TRUE, direction))
               ELSE PushAndAdvance(ClearPending(g1),
                                   Stroke(IF converted # Null THEN converted ELSE mark,
                                          expected, FALSE, direction))

\* a slip: the kind is taken to be the voiced mark whatever the character needs
EnterAwaitingVoiced(g, char, kind) ==
    [g EXCEPT !.pendingBaseChar = char, !.pendingDakutenType = "dakuten",
              !.pendingDakutenCount = 0]

\* char === baseChar: wait for the diacritic
EnterAwaiting(g, char, kind) ==
    [g EXCEPT !.pendingBaseChar = char, !.pendingDakutenType = kind,
              !.pendingDakutenCount = 0]

\* a slip: the wrong base character is shaken off and not recorded
WrongBaseUnrecorded(g, char, direction) == ClearPending(g)

\* the wrong base character: a miss
WrongBase(g, char, direction) ==
    PushAndAdvance(ClearPending(g), Stroke(char, Expected(g), FALSE, direction))

\* a slip: only a correct character moves the cursor on
PlainInputStuckOnMiss(g, char, direction) ==
    IF char = Expected(g)
    THEN PushAndAdvance([g EXCEPT !.pendingBaseChar = Null, !.pendingDakutenType = Null],
                        Stroke(char, Expected(g), TRUE, direction))
    ELSE [g EXCEPT !.strokes = Append(g.strokes, Stroke(char, Expected(g), FALSE, direction))]

\* the plain input: pendingBaseChar and pendingDakutenType are cleared, the
\* count is not
PlainInput(g, char, direction) ==
    PushAndAdvance([g EXCEPT !.pendingBaseChar = Null, !.pendingDakutenType = Null],
                   Stroke(char, Expected(g), char = Expected(g), direction))

\* handleFlickInput(char, direction)
HandleFlickInput(g, char, direction) ==
    IF ~InputAccepted(g) THEN g
    ELSE IF char = "dkt" \/ char = "hdk"
    THEN IF g.pendingBaseChar # Null THEN ResolvePending(g, char, direction) ELSE g
    ELSE LET needsDakuten == IF g.flickKeyboard THEN NeedsDakuten(Expected(g)) ELSE Null
         IN IF needsDakuten # Null
            THEN IF char = GetBaseChar(Expected(g))
                 THEN EnterAwaiting(g, char, needsDakuten)
                 ELSE WrongBase(g, char, direction)
            ELSE PlainInput(g, char, direction)

(***************************************************************************)
(* FlickKeyboard: the gesture handlers.  A handler that ends a gesture     *)
(* calls the input callback, which render() binds to handleFlickInput, so  *)
(* it yields the keyboard and the game screen: <<k, g>>.                   *)
(***************************************************************************)
\* handleTouchStart(e, keyElement)
HandleTouchStart(k, keyIndex, x, y) ==
    [k EXCEPT !.startX = x, !.startY = y, !.activeKey = keyIndex,
              !.activeKeyIndex = keyIndex]

\* handleMouseDown(e, keyElement)
HandleMouseDown(k, keyIndex, x, y) ==
    [k EXCEPT !.isDragging = TRUE, !.startX = x, !.startY = y,
              !.activeKey = keyIndex, !.activeKeyIndex = keyIndex]

\* a slip: the callback is called whatever the character
EmitInputUnchecked(k, g, character, direction) ==
    IF k.onInput THEN HandleFlickInput(g, character, direction) ELSE g

\* if (character && this.onInput) this.onInput(character, direction)
EmitInput(k, g, character, direction) ==
    IF character # Null /\ k.onInput THEN HandleFlickInput(g, character, direction) ELSE g

\* a handler's return null
NoFlickResult == [direction |-> Null, character |-> Null]

\* the FlickResult a move or a release returns
FlickResult(k, direction) ==
    [direction |-> direction, character |-> GetCharacterForDirection(k, direction)]

\* a slip: the move restarts the gesture where the pointer is
HandleTouchMoveRestarting(k, x, y) ==
    IF k.activeKey = NoKey THEN <<k, NoFlickResult>>
    ELSE << [k EXCEPT !.startX = x, !.startY = y],
            FlickResult(k, CalculateDirection(k.startX, k.startY, x, y)) >>

\* handleTouchMove(e, keyElement): <<the keyboard, the FlickResult or null>>
HandleTouchMove(k, x, y) ==
    IF k.activeKey = NoKey THEN <<k, NoFlickResult>>
    ELSE <<k, FlickResult(k, CalculateDirection(k.startX, k.startY, x, y))>>

\* handleMouseMove(e, keyElement): <<the keyboard, the FlickResult or null>>
HandleMouseMove(k, x, y) ==
    IF ~k.isDragging \/ k.activeKey = NoKey THEN <<k, NoFlickResult>>
    ELSE <<k, FlickResult(k, CalculateDirection(k.startX, k.startY, x, y))>>

\* handleTouchEnd(e, keyElement)
HandleTouchEnd(k, g, x, y) ==
    IF k.activeKey = NoKey THEN <<k, g>>
    ELSE LET direction == CalculateDirection(k.startX, k.startY, x, y)
             character == GetCharacterForDirection(k, direction)
         IN << [k EXCEPT !.activeKey = NoKey, !.activeKeyIndex = -1],
               EmitInput(k, g, character, direction) >>

\* handleMouseUp(e, keyElement)
HandleMouseUp(k, g, x, y) ==
    IF ~k.isDragging \/ k.activeKey = NoKey THEN <<k, g>>
    ELSE LET direction == CalculateDirection(k.startX, k.startY, x, y)
             character == GetCharacterForDirection(k, direction)
         IN << [k EXCEPT !.isDragging = FALSE, !.activeKey = NoKey,
                         !.activeKeyIndex = -1],
               EmitInput(k, g, character, direction) >>

(***************************************************************************)
(* GameScreen: the session.                                                *)
(***************************************************************************)
NoGameData == [gameMode |-> Null, inputMode |-> Null, seed |-> -1]
NoNavData == [to |-> "top"]

\* the key elements of a freshly rendered keyboard carry no data-flick-direction
FreshKeys == [i \in KeyIndexes |-> Null]

\* the user has one finger and one mouse: the key element the finger went down
\* on (NoKey: the finger is up) and whether the mouse button is held
NoPointer == [touch |-> NoKey, mouseDown |-> FALSE]

\* onInput(char, direction) as the step that ends a gesture calls it, with the
\* pending base character the call found; NoInput when the step ends no gesture
NoInput == [char |-> Null, direction |-> Null, pendingBaseChar |-> Null]

\* the release of an active gesture: the direction it computes, and the call of
\* the input callback, char being Null when the release calls nothing
InputCall(k, g, x, y) ==
    LET direction == CalculateDirection(k.startX, k.startY, x, y)
        character == GetCharacterForDirection(k, direction)
    IN IF character # Null /\ k.onInput
       THEN [char |-> character, direction |-> direction,
             pendingBaseChar |-> g.pendingBaseChar]
       ELSE [char |-> Null, direction |-> direction, pendingBaseChar |-> Null]

\* the fields of a constructed GameScreen
GameScreenNew ==
    [generator |-> NoGenerator, flickKeyboard |-> FALSE, characters |-> <<>>,
     currentIndex |-> 0, strokes |-> <<>>, timeRemaining |-> 0,
     isRunning |-> FALSE, isCountdown |-> FALSE, countdownValue |-> 0,
     pendingBaseChar |-> Null, pendingDakutenType |-> Null, pendingDakutenCount |-> 0,
     gameTimer |-> FALSE, countdownTimer |-> FALSE,
     gameData |-> NoGameData, activeKeyElement |-> NoKey]

\* render(container, data), up to startCountdown()
RenderGame(g, data) ==
    LET first == Generate(SeededRandomNew(data.seed), InitialChars)
        g1 == [g EXCEPT !.gameData = data, !.generator = first[2],
                        !.flickKeyboard = TRUE, !.characters = first[1],
                        !.currentIndex = 0, !.strokes = <<>>]
    IN RenderTrack(g1)

\* startCountdown()
StartCountdown(g) ==
    [g EXCEPT !.isCountdown = TRUE, !.countdownValue = CountdownSeconds,
              !.countdownTimer = TRUE]

\* startGame()
StartGame(g) ==
    [g EXCEPT !.isRunning = TRUE, !.timeRemaining = Duration, !.gameTimer = TRUE]

\* GameScreen.cleanup(): the fields it assigns
CleanupGame(g) ==
    [g EXCEPT !.gameTimer = FALSE, !.countdownTimer = FALSE, !.flickKeyboard = FALSE,
              !.isRunning = FALSE, !.isCountdown = FALSE]

\* a slip: the countdown timer is left running
CleanupIntervalsGameOnly(g, running) ==
    running \ (IF g.gameTimer THEN {"game"} ELSE {})

\* GameScreen.cleanup(): clearInterval on the handles that are set
CleanupIntervals(g, running) ==
    (running \ (IF g.gameTimer THEN {"game"} ELSE {}))
        \ (IF g.countdownTimer THEN {"countdown"} ELSE {})

\* a slip: the filter lets every stroke through
CountEvery(strokes, flag) == Len(strokes)

\* strokes.filter(s => s.correct).length, and its complement
RECURSIVE CountCorrect(_, _)
CountCorrect(strokes, flag) ==
    IF strokes = <<>> THEN 0
    ELSE (IF Head(strokes).correct = flag THEN 1 ELSE 0) + CountCorrect(Tail(strokes), flag)

\* a slip: the stroke is tallied under the character that was input
RECURSIVE CharStatsByInput(_, _, _)
CharStatsByInput(strokes, i, charStats) ==
    IF i > Len(strokes) THEN charStats
    ELSE IF strokes[i].input \notin DOMAIN charStats
    THEN CharStatsByInput(strokes, i,
                          MapSet(charStats, strokes[i].input, [correct |-> 0, miss |-> 0]))
    ELSE CharStatsByInput(strokes, i + 1,
             IF strokes[i].correct
             THEN [charStats EXCEPT ![strokes[i].input].correct = @ + 1]
             ELSE [charStats EXCEPT ![strokes[i].input].miss = @ + 1])

\* endGame(): for (const stroke of this.strokes), from stroke i on: the entry
\* of the expected character is created with two zeros if it is missing, then
\* its correct or its miss count is raised
RECURSIVE CharStats(_, _, _)
CharStats(strokes, i, charStats) ==
    IF i > Len(strokes) THEN charStats
    ELSE IF strokes[i].expected \notin DOMAIN charStats
    THEN CharStats(strokes, i,
                   MapSet(charStats, strokes[i].expected, [correct |-> 0, miss |-> 0]))
    ELSE CharStats(strokes, i + 1,
             IF strokes[i].correct
             THEN [charStats EXCEPT ![strokes[i].expected].correct = @ + 1]
             ELSE [charStats EXCEPT ![strokes[i].expected].miss = @ + 1])

\* endGame(): the GameResult with config.game.duration seconds.  cpm and
\* accuracy are quotients, kept as <<numerator, denominator>>:
\* cpm = correctCount / (duration / 60) and
\* accuracy = correctCount / totalCount * 100, or 0 with no stroke
GameResultOf(duration, g) ==
    LET correctCount == CountCorrect(g.strokes, TRUE)
        missCount == CountCorrect(g.strokes, FALSE)
        totalCount == Len(g.strokes)
    IN [to |-> "result",
        gameMode |-> g.gameData.gameMode, inputMode |-> g.gameData.inputMode,
        seed |-> g.gameData.seed,
        cpm |-> <<correctCount * 60, duration>>,
        accuracy |-> IF totalCount > 0 THEN <<correctCount * 100, totalCount>> ELSE <<0, 1>>,
        correctCount |-> correctCount, missCount |-> missCount,
        charStats |-> CharStats(g.strokes, 1, EmptyMap),
        strokes |-> g.strokes]

\* endGame(): the GameResult of a session
GameResult(g) == GameResultOf(Duration, g)

\* no keyboard is driven on its own while a session is played
NoProbe == [call |-> Null]

(***************************************************************************)
(* The actions: navigation, the two interval timers, and the pointer       *)
(* events on the key elements and on the document.                         *)
(***************************************************************************)
Init ==
    /\ game = GameScreenNew
    /\ kb = FlickKeyboardNew("hiragana")
    /\ intervals = {}
    /\ dom = [flickDirection |-> FreshKeys, documentMouseUp |-> FALSE]
    /\ screen = "top"
    /\ navData = NoNavData
    /\ pointer = NoPointer
    /\ lastInput = NoInput
    /\ probe = NoProbe

\* the screen is replaced: a finger still down on a removed key element
\* reports nothing more
Detached(p) == [p EXCEPT !.touch = NoKey]

\* navigateTo('game', {gameMode, inputMode, seed}) from the top screen
\* (startDaily, startPractice) or the result screen (retry): GameScreen.render
NavigateToGame(gameMode, seed) ==
    /\ UNCHANGED probe
    /\ screen \in {"top", "result"}
    /\ LET data == [gameMode |-> gameMode, inputMode |-> "hiragana", seed |-> seed]
       IN /\ game' = StartCountdown(RenderGame(game, data))
          /\ navData' = [to |-> "game", gameMode |-> gameMode,
                         inputMode |-> "hiragana", seed |-> seed]
    /\ kb' = [FlickKeyboardNew("hiragana") EXCEPT !.onInput = TRUE]
    /\ intervals' = intervals \cup {"countdown"}
    /\ dom' = [flickDirection |-> FreshKeys, documentMouseUp |-> TRUE]
    /\ screen' = "game"
    /\ pointer' = Detached(pointer)
    /\ lastInput' = NoInput

\* the countdown interval's callback
CountdownTick ==
    /\ UNCHANGED probe
    /\ "countdown" \in intervals
    /\ LET g1 == [game EXCEPT !.countdownValue = game.countdownValue - 1]
       IN IF g1.countdownValue > 0
          THEN /\ game' = g1
               /\ UNCHANGED intervals
          ELSE /\ game' = StartGame([g1 EXCEPT !.isCountdown = FALSE])
               /\ intervals' = (IF g1.countdownTimer THEN intervals \ {"countdown"}
                                ELSE intervals) \cup {"game"}
    /\ lastInput' = NoInput
    /\ UNCHANGED <<kb, dom, screen, navData, pointer>>

\* a slip: the tick that would take the remaining time to 0 does nothing
GameTickStalling ==
    /\ "game" \in intervals
    /\ game.timeRemaining > 1
    /\ game' = [game EXCEPT !.timeRemaining = game.timeRemaining - 1]
    /\ lastInput' = NoInput
    /\ UNCHANGED <<kb, intervals, dom, screen, navData, pointer, probe>>

\* a slip: the game goes on for one more tick
TimeIsUpLate(timeRemaining) == timeRemaining < 0

\* if (this.timeRemaining <= 0) this.endGame()
TimeIsUp(timeRemaining) == timeRemaining <= 0

\* the game interval's callback; at 0 endGame(): the result, cleanup() and
\* navigateTo('result', result)
GameTick ==
    /\ UNCHANGED probe
    /\ "game" \in intervals
    /\ lastInput' = NoInput
    /\ LET g1 == [game EXCEPT !.timeRemaining = game.timeRemaining - 1]
       IN IF TimeIsUp(g1.timeRemaining)
          THEN LET g2 == [g1 EXCEPT !.isRunning = FALSE, !.gameTimer = FALSE]
                   cleared == IF g1.gameTimer THEN intervals \ {"game"} ELSE intervals
               IN /\ game' = CleanupGame(g2)
                  /\ intervals' = CleanupIntervals(g2, cleared)
                  /\ kb' = IF g2.flickKeyboard THEN KeyboardCleanup(kb) ELSE kb
                  /\ dom' = [flickDirection |-> FreshKeys, documentMouseUp |-> FALSE]
                  /\ screen' = "result"
                  /\ navData' = GameResult(g2)
                  /\ pointer' = Detached(pointer)
          ELSE /\ game' = g1
               /\ UNCHANGED <<kb, intervals, dom, screen, navData, pointer>>

\* the quit button: cleanup() and navigateTo('top')
Quit ==
    /\ UNCHANGED probe
    /\ screen = "game"
    /\ game' = CleanupGame(game)
    /\ intervals' = CleanupIntervals(game, intervals)
    /\ kb' = IF game.flickKeyboard THEN KeyboardCleanup(kb) ELSE kb
    /\ dom' = [flickDirection |-> FreshKeys, documentMouseUp |-> FALSE]
    /\ screen' = "top"
    /\ navData' = NoNavData
    /\ pointer' = Detached(pointer)
    /\ lastInput' = NoInput

\* the result screen's button back to the top screen
ResultToTop ==
    /\ UNCHANGED probe
    /\ screen = "result"
    /\ screen' = "top"
    /\ navData' = NoNavData
    /\ lastInput' = NoInput
    /\ UNCHANGED <<game, kb, intervals, dom, pointer>>

\* the user can act on the keys of a rendered game screen
KeysShown == screen = "game" /\ game.currentIndex < MaxStrokes

\* touchstart on key element keyIndex
TouchStart(keyIndex, x, y) ==
    /\ UNCHANGED probe
    /\ KeysShown
    /\ pointer.touch = NoKey
    /\ pointer' = [pointer EXCEPT !.touch = keyIndex]
    /\ kb' = IF game.flickKeyboard THEN HandleTouchStart(kb, keyIndex, x, y) ELSE kb
    /\ lastInput' = NoInput
    /\ UNCHANGED <<game, intervals, dom, screen, navData>>

\* touchmove, on the key element the finger went down on: handleTouchMove sets
\* its data-flick-direction
TouchMove(x, y) ==
    /\ UNCHANGED probe
    /\ KeysShown
    /\ pointer.touch # NoKey
    /\ LET r == IF game.flickKeyboard THEN HandleTouchMove(kb, x, y) ELSE <<kb, NoFlickResult>>
       IN /\ kb' = r[1]
          /\ dom' = IF r[2] # NoFlickResult
                    THEN [dom EXCEPT !.flickDirection[pointer.touch] = r[2].direction]
                    ELSE dom
    /\ lastInput' = NoInput
    /\ UNCHANGED <<game, intervals, screen, navData, pointer>>

\* touchend, on the key element the finger went down on
TouchEnd(x, y) ==
    /\ UNCHANGED probe
    /\ KeysShown
    /\ pointer.touch # NoKey
    /\ pointer' = [pointer EXCEPT !.touch = NoKey]
    /\ LET r == IF game.flickKeyboard THEN HandleTouchEnd(kb, game, x, y) ELSE <<kb, game>>
       IN /\ kb' = r[1]
          /\ game' = r[2]
    /\ dom' = IF game.flickKeyboard /\ kb.activeKey # NoKey
              THEN [dom EXCEPT !.flickDirection[pointer.touch] = Null]
              ELSE dom
    /\ lastInput' = IF game.flickKeyboard /\ kb.activeKey # NoKey
                    THEN InputCall(kb, game, x, y) ELSE NoInput
    /\ UNCHANGED <<intervals, screen, navData>>

\* mousedown on key element keyIndex
MouseDown(keyIndex, x, y) ==
    /\ UNCHANGED probe
    /\ KeysShown
    /\ ~pointer.mouseDown
    /\ pointer' = [pointer EXCEPT !.mouseDown = TRUE]
    /\ game' = [game EXCEPT !.activeKeyElement = keyIndex]
    /\ kb' = IF game.flickKeyboard THEN HandleMouseDown(kb, keyIndex, x, y) ELSE kb
    /\ lastInput' = NoInput
    /\ UNCHANGED <<intervals, dom, screen, navData>>

\* mousemove on key element keyIndex
MouseMove(keyIndex, x, y) ==
    /\ UNCHANGED probe
    /\ KeysShown
    /\ LET r == IF game.activeKeyElement = keyIndex /\ game.flickKeyboard
                THEN HandleMouseMove(kb, x, y) ELSE <<kb, NoFlickResult>>
       IN /\ kb' = r[1]
          /\ dom' = IF r[2] # NoFlickResult
                    THEN [dom EXCEPT !.flickDirection[keyIndex] = r[2].direction]
                    ELSE dom
    /\ lastInput' = NoInput
    /\ UNCHANGED <<game, intervals, screen, navData, pointer>>

\* one mouse release over key element `over` (NoKey: outside every key): the
\* element's mouseup listener runs first, the document's after it
MouseUp(over, x, y) ==
    /\ UNCHANGED probe
    /\ KeysShown
    /\ pointer.mouseDown
    /\ pointer' = [pointer EXCEPT !.mouseDown = FALSE]
    /\ LET onKey == over # NoKey /\ game.activeKeyElement = over
           \* the key element's listener
           r1 == IF onKey /\ game.flickKeyboard
                 THEN HandleMouseUp(kb, game, x, y) ELSE <<kb, game>>
           g1 == IF onKey THEN [r1[2] EXCEPT !.activeKeyElement = NoKey] ELSE r1[2]
           \* handleDocumentMouseUp
           onDoc == dom.documentMouseUp /\ g1.activeKeyElement # NoKey /\ g1.flickKeyboard
           r2 == IF onDoc THEN HandleMouseUp(r1[1], g1, x, y) ELSE <<r1[1], g1>>
           g2 == IF onDoc THEN [r2[2] EXCEPT !.activeKeyElement = NoKey] ELSE r2[2]
           released == IF onKey THEN over ELSE game.activeKeyElement
           ended == (onKey \/ onDoc) /\ game.flickKeyboard
                        /\ kb.isDragging /\ kb.activeKey # NoKey
       IN /\ kb' = r2[1]
          /\ game' = g2
          /\ dom' = IF ended THEN [dom EXCEPT !.flickDirection[released] = Null] ELSE dom
          /\ lastInput' = IF ended THEN InputCall(kb, game, x, y) ELSE NoInput
    /\ UNCHANGED <<intervals, screen, navData>>

GameModes == {"practice"}

\* the session is played on a touch screen with one finger
Next ==
    \/ \E gameMode \in GameModes, seed \in Seeds : NavigateToGame(gameMode, seed)
    \/ CountdownTick
    \/ GameTick
    \/ Quit
    \/ ResultToTop
    \/ \E keyIndex \in KeyIndexes, x \in CoordsX, y \in CoordsY : TouchStart(keyIndex, x, y)
    \/ \E x \in CoordsX, y \in CoordsY : TouchMove(x, y)
    \/ \E x \in CoordsX, y \in CoordsY : TouchEnd(x, y)

Spec == Init /\ [][Next]_vars

(***************************************************************************)
(* The composition state machine's properties.                             *)
(***************************************************************************)
\* the session is running: the state in which handleFlickInput takes an input
Running == game.isRunning /\ ~game.isCountdown

\* Idle: no pending base character
Idle(g) == g.pendingBaseChar = Null

\* Idle with nothing left over: no base, no kind, no press counted
FullyIdle(g) ==
    g.pendingBaseChar = Null /\ g.pendingDakutenType = Null /\ g.pendingDakutenCount = 0

\* the characters the keyboard can emit, and the two diacritic characters
LayoutChars ==
    {HiraganaLayout[i][d] : i \in 1..Len(HiraganaLayout), d \in Directions} \ {Null}

Toggles == {"dkt", "hdk"}

\* the directions in which the keyboard emits the character c: onInput is called
\* with a key's character and the direction it sits at
DirectionsOf(c) ==
    {d \in Directions : \E i \in 1..Len(HiraganaLayout) : HiraganaLayout[i][d] = c}

LastStroke == game.strokes[Len(game.strokes)]

\* the last step handed the running session the character c
JustTook(c) == Running /\ lastInput.char = c

\* C1: running and Idle with a voiced expected character e, the base character of e
\* commits nothing and the toggle after it commits exactly one stroke, correct, with
\* input e; the cursor has then advanced by exactly 1.
C1_DakutenComposition ==
    (Running /\ Idle(game) /\ NeedsDakuten(Expected(game)) = "dakuten") =>
        \A d1 \in DirectionsOf(GetBaseChar(Expected(game))), d2 \in DirectionsOf("dkt") :
            LET e == Expected(game)
                g1 == HandleFlickInput(game, GetBaseChar(e), d1)
                g2 == HandleFlickInput(g1, "dkt", d2)
            IN /\ g1.strokes = game.strokes
               /\ g1.currentIndex = game.currentIndex
               /\ g2.strokes = Append(game.strokes, Stroke(e, e, TRUE, d2))
               /\ g2.currentIndex = game.currentIndex + 1

\* a voiced character has just been completed by the toggle
C1_Witness ==
    /\ JustTook("dkt") /\ lastInput.pendingBaseChar # Null
    /\ Len(game.strokes) = 1
    /\ LastStroke.correct /\ LastStroke.input = LastStroke.expected
    /\ NeedsDakuten(LastStroke.expected) = "dakuten"
    /\ game.currentIndex = 1 /\ Idle(game)

\* C2: running and Idle with a semi-voiced expected character e, the inputs base,
\* toggle, toggle commit nothing and leave the cursor after the base and after the
\* first toggle (which counts 1 press), and the second toggle commits one correct
\* stroke with input e, advances the cursor by 1 and returns to Idle.
C2_HandakutenComposition ==
    (Running /\ Idle(game) /\ NeedsDakuten(Expected(game)) = "handakuten") =>
        \A d1 \in DirectionsOf(GetBaseChar(Expected(game))),
           d2 \in DirectionsOf("dkt"), d3 \in DirectionsOf("dkt") :
            LET e == Expected(game)
                g1 == HandleFlickInput(game, GetBaseChar(e), d1)
                g2 == HandleFlickInput(g1, "dkt", d2)
                g3 == HandleFlickInput(g2, "dkt", d3)
            IN /\ g1.strokes = game.strokes /\ g1.currentIndex = game.currentIndex
               /\ g1.pendingDakutenCount = 0
               /\ g2.strokes = game.strokes /\ g2.currentIndex = game.currentIndex
               /\ g2.pendingBaseChar = GetBaseChar(e)
               /\ g2.pendingDakutenType = "handakuten"
               /\ g2.pendingDakutenCount = 1
               /\ g3.strokes = Append(game.strokes, Stroke(e, e, TRUE, d3))
               /\ g3.currentIndex = game.currentIndex + 1
               /\ FullyIdle(g3)

\* a semi-voiced character has just been completed by a toggle
C2_Witness ==
    /\ JustTook("dkt") /\ lastInput.pendingBaseChar # Null
    /\ Len(game.strokes) > 0
    /\ LastStroke.correct /\ LastStroke.input = LastStroke.expected
    /\ NeedsDakuten(LastStroke.expected) = "handakuten"
    /\ game.currentIndex = Len(game.strokes) /\ FullyIdle(game)

\* C3 as stated: running and Idle with an expected character e that needs a
\* diacritic, every input c that is not the base character of e is committed at
\* once as one miss (c, e, false), the cursor advances by 1 and the state is Idle.
C3_WrongBaseAnyInput ==
    (Running /\ Idle(game) /\ NeedsDakuten(Expected(game)) # Null) =>
        \A c \in LayoutChars \ {GetBaseChar(Expected(game))} : \A d \in DirectionsOf(c) :
            LET g1 == HandleFlickInput(game, c, d)
            IN /\ g1.strokes = Append(game.strokes, Stroke(c, Expected(game), FALSE, d))
               /\ g1.currentIndex = game.currentIndex + 1
               /\ FullyIdle(g1)

\* C3 amended: the same for every input c that is neither the base character of e
\* nor a diacritic character; a diacritic character is dropped in Idle.
C3_WrongBase ==
    (Running /\ Idle(game) /\ NeedsDakuten(Expected(game)) # Null) =>
        /\ \A c \in (LayoutChars \ Toggles) \ {GetBaseChar(Expected(game))} : \A d \in DirectionsOf(c) :
              LET g1 == HandleFlickInput(game, c, d)
              IN /\ g1.strokes = Append(game.strokes, Stroke(c, Expected(game), FALSE, d))
                 /\ g1.currentIndex = game.currentIndex + 1
                 /\ FullyIdle(g1)
        /\ \A c \in Toggles : \A d \in DirectionsOf(c) : HandleFlickInput(game, c, d) = game

\* a wrong base character has just been committed as a miss from Idle
C3_Witness ==
    /\ Running /\ lastInput.char \in LayoutChars \ Toggles
    /\ lastInput.pendingBaseChar = Null
    /\ Len(game.strokes) > 0
    /\ NeedsDakuten(LastStroke.expected) # Null
    /\ lastInput.char # GetBaseChar(LastStroke.expected)
    /\ LastStroke.input = lastInput.char /\ ~LastStroke.correct
    /\ game.currentIndex = Len(game.strokes) /\ FullyIdle(game)

\* C4 as stated: running and Idle with an expected character e that needs no
\* diacritic, every character c the keyboard emits is committed at once as one
\* stroke (c, e, c = e) and the cursor advances by 1.
C4_PlainAnyInput ==
    (Running /\ Idle(game) /\ NeedsDakuten(Expected(game)) = Null) =>
        \A c \in LayoutChars : \A d \in DirectionsOf(c) :
            LET g1 == HandleFlickInput(game, c, d)
            IN /\ g1.strokes =
                    Append(game.strokes, Stroke(c, Expected(game), c = Expected(game), d))
               /\ g1.currentIndex = game.currentIndex + 1

\* C4 amended: the same for every character c the keyboard emits other than the
\* two diacritic characters, which are dropped in Idle.
C4_PlainInput ==
    (Running /\ Idle(game) /\ NeedsDakuten(Expected(game)) = Null) =>
        /\ \A c \in LayoutChars \ Toggles : \A d \in DirectionsOf(c) :
              LET g1 == HandleFlickInput(game, c, d)
              IN /\ g1.strokes =
                      Append(game.strokes, Stroke(c, Expected(game), c = Expected(game), d))
                 /\ g1.currentIndex = game.currentIndex + 1
        /\ \A c \in Toggles : \A d \in DirectionsOf(c) : HandleFlickInput(game, c, d) = game

\* a character other than the expected plain one has just been committed from Idle
C4_Witness ==
    /\ Running /\ lastInput.char \in LayoutChars \ Toggles
    /\ lastInput.pendingBaseChar = Null
    /\ Len(game.strokes) > 0
    /\ NeedsDakuten(LastStroke.expected) = Null
    /\ LastStroke.input = lastInput.char /\ LastStroke.input # LastStroke.expected
    /\ ~LastStroke.correct
    /\ game.currentIndex = Len(game.strokes)

\* C5: running and Idle with an expected character e that needs a diacritic, the
\* base character of e puts the machine in AwaitingDiacritic with that base, the
\* kind e needs and no press counted; no stroke is appended and the cursor and the
\* text stay.
C5_EnterAwaiting ==
    (Running /\ Idle(game) /\ NeedsDakuten(Expected(game)) # Null) =>
        \A d \in DirectionsOf(GetBaseChar(Expected(game))) :
            LET c == GetBaseChar(Expected(game))
                g1 == HandleFlickInput(game, c, d)
            IN /\ g1.pendingBaseChar = c
               /\ g1.pendingDakutenType = NeedsDakuten(Expected(game))
               /\ g1.pendingDakutenCount = 0
               /\ g1.strokes = game.strokes
               /\ g1.currentIndex = game.currentIndex
               /\ g1.characters = game.characters

\* the base of a semi-voiced expected character has just been taken from Idle
C5_Witness ==
    /\ Running /\ lastInput.char = game.pendingBaseChar
    /\ lastInput.pendingBaseChar = Null
    /\ game.pendingBaseChar = GetBaseChar(Expected(game))
    /\ game.pendingDakutenType = "handakuten"
    /\ game.pendingDakutenCount = 0
    /\ game.currentIndex = Len(game.strokes)

\* C6 as stated: in AwaitingDiacritic every input other than a diacritic character
\* is ignored: the game screen is as it was.
C6_NonToggleIgnored ==
    (Running /\ ~Idle(game)) =>
        \A c \in LayoutChars \ Toggles : \A d \in DirectionsOf(c) :
            HandleFlickInput(game, c, d) = game

\* C6 amended: in AwaitingDiacritic an input other than a diacritic character is
\* handled as in Idle.  The base character of the expected character keeps the
\* machine in AwaitingDiacritic, with no press counted any more, no stroke and the
\* cursor where it is; any other character commits one stroke, a miss when the
\* expected character needs a diacritic, advances the cursor by 1 and clears the
\* pending base and kind.
C6_NonToggleWhileAwaiting ==
    (Running /\ ~Idle(game)) =>
        \A c \in LayoutChars \ Toggles : \A d \in DirectionsOf(c) :
            LET e == Expected(game)
                g1 == HandleFlickInput(game, c, d)
            IN IF NeedsDakuten(e) # Null /\ c = GetBaseChar(e)
               THEN /\ g1.pendingBaseChar = c
                    /\ g1.pendingDakutenType = NeedsDakuten(e)
                    /\ g1.pendingDakutenCount = 0
                    /\ g1.strokes = game.strokes
                    /\ g1.currentIndex = game.currentIndex
               ELSE /\ g1.strokes =
                         Append(game.strokes,
                                Stroke(c, e, NeedsDakuten(e) = Null /\ c = e, d))
                    /\ g1.currentIndex = game.currentIndex + 1
                    /\ g1.pendingBaseChar = Null
                    /\ g1.pendingDakutenType = Null

\* a character other than a diacritic has just been committed as a miss while a
\* base character was pending
C6_Witness ==
    /\ Running /\ lastInput.char \in LayoutChars \ Toggles
    /\ lastInput.pendingBaseChar # Null
    /\ Len(game.strokes) > 0
    /\ LastStroke.input = lastInput.char /\ ~LastStroke.correct
    /\ NeedsDakuten(LastStroke.expected) # Null
    /\ game.currentIndex = Len(game.strokes) /\ Idle(game)

\* C7: every step that commits a stroke leaves no base, no kind and no press
\* counted.
C7_CommitClearsPending ==
    [][Len(game'.strokes) = Len(game.strokes) + 1 => FullyIdle(game')]_vars

\* C8: every step that changes the screen, the cleanup on leaving the game screen
\* and the render of a later session alike, leaves no base, no kind, no press
\* counted and no gesture active.
C8_TeardownReleases ==
    [][screen' # screen =>
          /\ FullyIdle(game')
          /\ kb'.activeKey = NoKey /\ ~kb'.isDragging]_vars

\* C9: the cursor is the number of strokes, and a step within a session either
\* appends one stroke and advances the cursor by 1 or leaves both.
C9_CursorCountsStrokes ==
    /\ [](game.currentIndex = Len(game.strokes))
    /\ [][(screen = "game" /\ screen' = "game") =>
            \/ /\ game'.strokes = game.strokes
               /\ game'.currentIndex = game.currentIndex
            \/ /\ Len(game'.strokes) = Len(game.strokes) + 1
               /\ SubSeq(game'.strokes, 1, Len(game.strokes)) = game.strokes
               /\ game'.currentIndex = game.currentIndex + 1]_vars

\* a second stroke has just been committed
C9_Witness ==
    /\ Running /\ lastInput.char # Null
    /\ Len(game.strokes) = 2 /\ game.currentIndex = 2

\* the inputs of a sequence commit a stroke and advance the cursor
RECURSIVE AfterInputs(_, _)
AfterInputs(g, inputs) ==
    IF inputs = <<>> THEN g
    ELSE AfterInputs(HandleFlickInput(g, Head(inputs), CHOOSE d \in DirectionsOf(Head(inputs)) : TRUE),
                     Tail(inputs))

Advances(g, inputs) ==
    LET g1 == AfterInputs(g, inputs)
    IN g1.currentIndex > g.currentIndex /\ Len(g1.strokes) > Len(g.strokes)

CanAdvance(g) ==
    \/ \E c1 \in LayoutChars : Advances(g, <<c1>>)
    \/ \E c1 \in LayoutChars, c2 \in LayoutChars : Advances(g, <<c1, c2>>)
    \/ \E c1 \in LayoutChars, c2 \in LayoutChars, c3 \in LayoutChars :
          Advances(g, <<c1, c2, c3>>)

\* C10: in every state of a running session some sequence of at most 3 inputs
\* commits a stroke and advances the cursor, and so it is after any one input.
C10_NeverBlocked ==
    Running =>
        /\ CanAdvance(game)
        /\ \A c \in LayoutChars : \A d \in DirectionsOf(c) :
              CanAdvance(HandleFlickInput(game, c, d))

\* a stroke has just been committed after a semi-voiced composition was left
\* half-way: the first toggle, then another character
C10_Witness ==
    /\ Running /\ lastInput.char \in LayoutChars \ Toggles
    /\ lastInput.pendingBaseChar # Null
    /\ Len(game.strokes) > 0
    /\ NeedsDakuten(LastStroke.expected) = "handakuten"
    /\ ~LastStroke.correct
    /\ game.currentIndex = Len(game.strokes)

\* the strokes of a log with this correctness flag
Flagged(strokes, flag) == Cardinality({i \in 1..Len(strokes) : strokes[i].correct = flag})

\* the quotients <<a, b>> and <<c, d>> are one number
SameQuotient(q, r) == q[2] # 0 /\ r[2] # 0 /\ q[1] * r[2] = r[1] * q[2]

\* a session of a minute with fifty correct strokes and five incorrect ones
MinuteSession ==
    [GameScreenNew EXCEPT
        !.gameData = [gameMode |-> "practice", inputMode |-> "hiragana", seed |-> 0],
        !.strokes = [i \in 1..55 |-> Stroke(IF i % 11 = 0 THEN "ha" ELSE "ka", "ka",
                                            i % 11 # 0, "center")]]

\* C23: the result a session ends with carries the session's stroke log, counts
\* as correct the strokes flagged correct and as misses the others, and, when the
\* log is not empty, its accuracy is correct / (correct + miss) * 100; its CPM is
\* correct / (duration in seconds / 60).  A session of 60 seconds with 50 correct
\* and 5 incorrect strokes has CPM 50 and accuracy 50 / 55 * 100.
C23_FinalScore ==
    screen = "result" =>
        LET correct == Flagged(navData.strokes, TRUE)
            miss == Flagged(navData.strokes, FALSE)
            minute == GameResultOf(60, MinuteSession)
        IN /\ navData.strokes = game.strokes
           /\ navData.correctCount = correct /\ navData.missCount = miss
           /\ correct + miss > 0 =>
                 SameQuotient(navData.accuracy, <<correct * 100, correct + miss>>)
           /\ SameQuotient(navData.cpm, <<correct * 60, Duration>>)
           /\ minute.correctCount = 50 /\ minute.missCount = 5
           /\ SameQuotient(minute.cpm, <<50, 1>>)
           /\ SameQuotient(minute.accuracy, <<50 * 100, 55>>)

\* a session has ended with a correct stroke and a miss in its log
C23_Witness ==
    /\ screen = "result"
    /\ navData.correctCount = 1 /\ navData.missCount = 1
    /\ navData.accuracy = <<100, 2>>

(***************************************************************************)
(* The character index and the diacritic lookups of a FlickKeyboard        *)
(* constructed with one of a family of configurations and driven on its    *)
(* own: kb is that keyboard and probe the last call made on it.            *)
(***************************************************************************)
\* entries a diacritic map of the family has at most
MaxEntries == 2

\* the characters the maps of the family are made of
MapChars == {"ka", "ha", "ga"}

\* the objects with n entries made of chars: Object.entries lists distinct keys
MapsOver(chars, n) ==
    {m \in [1..n -> chars \X chars] :
        \A i \in 1..n, j \in 1..n : i # j => m[i][1] # m[j][1]}

MapsOfLen(n) == MapsOver(MapChars, n)

DakutenMaps == UNION {MapsOfLen(n) : n \in 0..MaxEntries}

\* the semi-voiced maps of the family are shorter and made of two characters
HandakutenChars == {"ha", "ga"}

HandakutenMaps == UNION {MapsOver(HandakutenChars, n) : n \in 0..(MaxEntries - 1)}

\* the hiragana layouts of the family: the sessions' layout, one that places a
\* voiced character on a key, and one that places a character on two keys
HiraganaLayouts ==
    { HiraganaLayout,
      << FlickKey("ka", Null, Null, Null, Null),
         FlickKey("ha", "ga", Null, Null, Null) >>,
      << FlickKey("ka", Null, "ha", Null, Null),
         FlickKey("ha", Null, Null, "ka", Null) >> }

\* the alphabet layouts of the family: the sessions' layout, and one that places
\* a character the diacritic maps know
AlphabetLayouts ==
    { AlphabetLayout,
      << FlickKey("a", "ka", Null, Null, Null) >> }

Configs ==
    {Config(h, a, d, hd) :
        h \in HiraganaLayouts, a \in AlphabetLayouts,
        d \in DakutenMaps, hd \in HandakutenMaps}

InputModes == {"hiragana", "alphabet"}

\* the characters looked up: those of the layouts and maps, and one of neither
LookupChars == MapChars \cup {"dkt", "hdk", "a", "b", "e", "x"}

\* the session's variables, which a keyboard driven on its own leaves alone
NoSession ==
    /\ game = GameScreenNew
    /\ intervals = {}
    /\ dom = [flickDirection |-> FreshKeys, documentMouseUp |-> FALSE]
    /\ screen = "top"
    /\ navData = NoNavData
    /\ pointer = NoPointer
    /\ lastInput = NoInput

\* new FlickKeyboard(config, inputMode)
IndexInit ==
    /\ NoSession
    /\ \E config \in Configs, inputMode \in InputModes :
          /\ kb = FlickKeyboardOf(config, inputMode)
          /\ probe = [call |-> "new", config |-> config]

\* needsDakuten(char) and getBaseChar(char)
LookupDiacritic(char) ==
    /\ probe' = [call |-> "diacritic", config |-> probe.config, char |-> char,
                 needs |-> NeedsDakutenOf(probe.config, char),
                 base |-> GetBaseCharOf(probe.config, char)]
    /\ UNCHANGED <<game, kb, intervals, dom, screen, navData, pointer, lastInput>>

\* getKeyForChar(char), getDirectionForChar(char) and getKeyIndexForChar(char)
LookupChar(char) ==
    /\ probe' = [call |-> "lookup", config |-> probe.config, char |-> char,
                 key |-> GetKeyForChar(kb, char),
                 direction |-> GetDirectionForChar(kb, char),
                 keyIndex |-> GetKeyIndexForChar(kb, char)]
    /\ UNCHANGED <<game, kb, intervals, dom, screen, navData, pointer, lastInput>>

\* setInputMode(mode)
ChangeInputMode(mode) ==
    /\ kb' = SetInputMode(probe.config, kb, mode)
    /\ probe' = [call |-> "setInputMode", config |-> probe.config,
                 from |-> kb.inputMode, mode |-> mode]
    /\ UNCHANGED <<game, intervals, dom, screen, navData, pointer, lastInput>>

IndexNext ==
    \/ \E char \in MapChars : LookupDiacritic(char)
    \/ \E char \in LookupChars : LookupChar(char)
    \/ \E mode \in InputModes : ChangeInputMode(mode)

IndexSpec == IndexInit /\ [][IndexNext]_vars

\* Object.keys(map)
MapKeys(map) == {map[i][1] : i \in 1..Len(map)}

\* the map of a kind
MapOfKind(config, kind) ==
    IF kind = "dakuten" THEN config.dakutenMap ELSE config.handakutenMap

\* char is a value of the map under a base that is no value of the map
UnchainedValue(map, char) ==
    \E i \in 1..Len(map) : map[i][2] = char /\ map[i][1] \notin MapValues(map)

\* C11 as stated: needsDakuten(c) returns a kind only if c is a value of that
\* kind's map and c is not itself a base key of that map, dakuten before
\* handakuten; getBaseChar(c) is non-null exactly when needsDakuten(c) is, and the
\* map of the returned kind takes getBaseChar(c) back to c.
C11_KindOnlyIfNotBaseKey ==
    probe.call = "diacritic" =>
        /\ probe.needs # Null =>
              /\ probe.char \in MapValues(MapOfKind(probe.config, probe.needs))
              /\ probe.char \notin MapKeys(MapOfKind(probe.config, probe.needs))
        /\ (probe.base # Null) <=> (probe.needs # Null)
        /\ probe.needs # Null =>
              MapGet(MapOfKind(probe.config, probe.needs), probe.base) = probe.char

\* C11 amended: needsDakuten(c) returns a kind exactly when c is a value of that
\* kind's map under a base that is not itself a value of that map, dakuten
\* before handakuten; getBaseChar(c) is non-null exactly when needsDakuten(c) is,
\* and the map of the returned kind takes getBaseChar(c) back to c.
C11_DiacriticLookups ==
    probe.call = "diacritic" =>
        /\ probe.needs = "dakuten" <=> UnchainedValue(probe.config.dakutenMap, probe.char)
        /\ probe.needs = "handakuten" <=>
              /\ ~UnchainedValue(probe.config.dakutenMap, probe.char)
              /\ UnchainedValue(probe.config.handakutenMap, probe.char)
        /\ probe.needs \in {"dakuten", "handakuten", Null}
        /\ (probe.base # Null) <=> (probe.needs # Null)
        /\ probe.needs # Null =>
              /\ probe.base \notin MapValues(MapOfKind(probe.config, probe.needs))
              /\ MapGet(MapOfKind(probe.config, probe.needs), probe.base) = probe.char

\* the voiced form of a chain's middle character has been looked up: it is a
\* base key of the map and still needs the mark, its own voiced form does not
C11_Witness ==
    /\ probe.call = "diacritic"
    /\ probe.config.dakutenMap = << <<"ka", "ha">>, <<"ha", "ga">> >>
    /\ probe.char = "ha" /\ probe.needs = "dakuten" /\ probe.base = "ka"

\* the layout the keyboard is showing: getLayout() under its configuration
ActiveLayout == GetLayoutOf(probe.config, kb.inputMode)

\* the keys of a layout
LayoutKeys(layout) == {layout[i] : i \in 1..Len(layout)}

\* C18: every character placed in a slot of the active layout has a direction and
\* a key in the index, the key is a key of the layout, and the character that key
\* binds in that direction is the character looked up.
C18_LookupRoundTrip ==
    \A key \in LayoutKeys(ActiveLayout), slot \in Directions :
        LET ch == key[slot]
            d == GetDirectionForChar(kb, ch)
            k == GetKeyForChar(kb, ch)
        IN ch # Null =>
              /\ d # Null
              /\ k \in LayoutKeys(ActiveLayout)
              /\ k[d] = ch

\* a character placed on two keys has been looked up: the index answers with the
\* later key and the side of that key the character is on
C18_Witness ==
    /\ probe.call = "lookup" /\ kb.inputMode = "hiragana"
    /\ probe.char = "ka" /\ probe.direction = "left" /\ probe.keyIndex = 1
    /\ probe.key = FlickKey("ha", Null, Null, "ka", Null)
    /\ ActiveLayout[1].center = "ka"

\* the characters a layout places in its slots
SlotChars(layout) ==
    {key[slot] : key \in LayoutKeys(layout), slot \in Directions} \ {Null}

\* the entries of the two diacritic maps in the order addDakutenMappings reads
\* them: the dakuten map's, then the handakuten map's
DiacriticEntries == probe.config.dakutenMap \o probe.config.handakutenMap

\* the characters the diacritic maps produce
DiacriticChars == MapValues(DiacriticEntries)

\* the index resolves a and b to one key and one key index
SameKey(a, b) ==
    /\ a \in DOMAIN kb.charToKey /\ b \in DOMAIN kb.charToKey
    /\ GetKeyForChar(kb, a) = GetKeyForChar(kb, b)
    /\ GetKeyIndexForChar(kb, a) # -1
    /\ GetKeyIndexForChar(kb, a) = GetKeyIndexForChar(kb, b)

\* the base of the first entry that produces the character
FirstBaseOf(char) ==
    DiacriticEntries[CHOOSE i \in 1..Len(DiacriticEntries) :
                        /\ DiacriticEntries[i][2] = char
                        /\ \A j \in 1..(i - 1) : DiacriticEntries[j][2] # char][1]

\* C19 as stated: in hiragana mode every value of the dakuten map and of the
\* handakuten map whose base is in the layout resolves to the same key and the
\* same key index as its base; in alphabet mode the index holds the characters of
\* the layout and no other.
C19_DiacriticOnKeyOfBase ==
    /\ kb.inputMode = "hiragana" =>
          \A i \in 1..Len(DiacriticEntries) :
              DiacriticEntries[i][1] \in SlotChars(ActiveLayout) =>
                  SameKey(DiacriticEntries[i][2], DiacriticEntries[i][1])
    /\ kb.inputMode = "alphabet" => DOMAIN kb.charToKey = SlotChars(ActiveLayout)

\* C19 amended: in hiragana mode a diacritic character the layout places itself
\* keeps a key of the layout that holds it; one the layout does not place is in
\* the index when an entry producing it has its base in the layout, resolves to
\* the key and key index of the base of some entry producing it, and to those of
\* the base of the first such entry (the dakuten map's before the handakuten
\* map's) when that base is in the layout; the index holds nothing but the
\* layout's characters and diacritic characters.  In alphabet mode the index
\* holds the characters of the layout and no other.
C19_DiacriticIndex ==
    /\ kb.inputMode = "hiragana" =>
          /\ DOMAIN kb.charToKey \subseteq SlotChars(ActiveLayout) \cup DiacriticChars
          /\ \A char \in DiacriticChars \cap SlotChars(ActiveLayout) :
                /\ GetKeyForChar(kb, char) \in LayoutKeys(ActiveLayout)
                /\ ActiveLayout[GetKeyIndexForChar(kb, char) + 1] = GetKeyForChar(kb, char)
                /\ GetDirectionForChar(kb, char) # Null
          /\ \A char \in DiacriticChars \ SlotChars(ActiveLayout) :
                /\ (\E i \in 1..Len(DiacriticEntries) :
                       /\ DiacriticEntries[i][2] = char
                       /\ DiacriticEntries[i][1] \in SlotChars(ActiveLayout))
                      => char \in DOMAIN kb.charToKey
                /\ char \in DOMAIN kb.charToKey =>
                      \E i \in 1..Len(DiacriticEntries) :
                          /\ DiacriticEntries[i][2] = char
                          /\ SameKey(char, DiacriticEntries[i][1])
                /\ FirstBaseOf(char) \in SlotChars(ActiveLayout) =>
                      SameKey(char, FirstBaseOf(char))
    /\ kb.inputMode = "alphabet" => DOMAIN kb.charToKey = SlotChars(ActiveLayout)

\* a character both maps produce, from bases on two keys, has been looked up: it
\* is on the key of its dakuten base
C19_Witness ==
    /\ probe.call = "lookup" /\ kb.inputMode = "hiragana"
    /\ probe.config.flickLayout.hiragana = HiraganaLayout
    /\ probe.config.dakutenMap = << <<"ka", "ga">> >>
    /\ probe.config.handakutenMap = << <<"ha", "ga">> >>
    /\ probe.char = "ga" /\ probe.keyIndex = 0 /\ probe.key = HiraganaLayout[1]

\* C20: after setInputMode(m) the keyboard is in mode m and its index, keys and
\* key indexes, is the index of a keyboard newly constructed for m with the same
\* configuration: nothing of the mode it was in is left.
C20_ModeChangeRebuildsIndex ==
    probe.call = "setInputMode" =>
        /\ kb.inputMode = probe.mode
        /\ kb.charToKey = FlickKeyboardOf(probe.config, probe.mode).charToKey
        /\ kb.charToKeyIndex = FlickKeyboardOf(probe.config, probe.mode).charToKeyIndex

\* a keyboard whose hiragana index held a diacritic character on the key of a
\* base that the alphabet layout places too has been switched to alphabet mode
C20_Witness ==
    /\ probe.call = "setInputMode" /\ probe.from = "hiragana" /\ probe.mode = "alphabet"
    /\ probe.config.flickLayout.hiragana = HiraganaLayout
    /\ probe.config.flickLayout.alphabet \in AlphabetLayouts \ {AlphabetLayout}
    /\ probe.config.dakutenMap = << <<"ka", "ga">> >>
    /\ "ga" \in DOMAIN FlickKeyboardOf(probe.config, "hiragana").charToKey
    /\ DOMAIN kb.charToKey = {"a", "ka"}

(***************************************************************************)
(* The gestures of one running session, played with a finger and the mouse *)
(* at once while the clock stands between two ticks.                       *)
(***************************************************************************)
\* the game screen when the countdown has run out
CountedDown(data) ==
    LET g0 == StartCountdown(RenderGame(GameScreenNew, data))
    IN StartGame([g0 EXCEPT !.countdownValue = 0, !.isCountdown = FALSE])

\* the session's text starts with a voiced and a semi-voiced character
GestureSeeds == {1}

\* the pointers stay on one horizontal line
GestureY == {0}

GestureInit ==
    \E seed \in GestureSeeds :
        /\ game = CountedDown([gameMode |-> "practice", inputMode |-> "hiragana",
                               seed |-> seed])
        /\ navData = [to |-> "game", gameMode |-> "practice",
                      inputMode |-> "hiragana", seed |-> seed]
        /\ kb = [FlickKeyboardNew("hiragana") EXCEPT !.onInput = TRUE]
        /\ intervals = {"game"}
        /\ dom = [flickDirection |-> FreshKeys, documentMouseUp |-> TRUE]
        /\ screen = "game"
        /\ pointer = NoPointer
        /\ lastInput = NoInput
        /\ probe = NoProbe

\* the session has not committed its first stroke
FirstStroke == game.currentIndex = 0

GestureNext ==
    \/ \E keyIndex \in KeyIndexes, x \in CoordsX, y \in GestureY :
          FirstStroke /\ TouchStart(keyIndex, x, y)
    \/ \E x \in CoordsX, y \in GestureY :
          FirstStroke /\ TouchMove(x, y)
    \/ \E x \in CoordsX, y \in GestureY :
          FirstStroke /\ TouchEnd(x, y)
    \/ \E keyIndex \in KeyIndexes, x \in CoordsX, y \in GestureY :
          FirstStroke /\ MouseDown(keyIndex, x, y)
    \/ \E keyIndex \in KeyIndexes, x \in CoordsX, y \in GestureY :
          FirstStroke /\ MouseMove(keyIndex, x, y)
    \/ \E over \in KeyIndexes \cup {NoKey}, x \in CoordsX, y \in GestureY :
          FirstStroke /\ MouseUp(over, x, y)

GestureSpec == GestureInit /\ [][GestureNext]_vars

\* a gesture is active: the handlers of a move and of a release act
TouchActive(k) == k.activeKey # NoKey

MouseActive(k) == k.isDragging /\ k.activeKey # NoKey

\* the keyboard when a gesture has ended
Ended(k) == [k EXCEPT !.activeKey = NoKey, !.activeKeyIndex = -1]

\* the game screen after a release that computes this direction: the input
\* callback has run once with the character bound to it, or not at all
AfterRelease(k, g, direction) ==
    IF GetCharacterForDirection(k, direction) # Null /\ k.onInput
    THEN HandleFlickInput(g, GetCharacterForDirection(k, direction), direction)
    ELSE g

\* C12: a touch or mouse move returns the preview of the direction from the start
\* coordinates to the pointer and changes nothing of the keyboard, so it calls no
\* input callback and keeps the start coordinates and the active key.  A release
\* of an active gesture computes the direction from the start coordinates to the
\* release coordinates, calls the input callback once with the character bound
\* to that direction or not at all, and leaves no active key (and, for the
\* mouse, no drag); a release with no active gesture changes nothing.
C12_GestureLifecycle ==
    \A x \in CoordsX, y \in CoordsY :
        LET direction == CalculateDirection(kb.startX, kb.startY, x, y)
            touchMove == HandleTouchMove(kb, x, y)
            mouseMove == HandleMouseMove(kb, x, y)
            touchEnd == HandleTouchEnd(kb, game, x, y)
            mouseUp == HandleMouseUp(kb, game, x, y)
        IN /\ touchMove[1] = kb
           /\ touchMove[2] = IF TouchActive(kb) THEN FlickResult(kb, direction)
                             ELSE NoFlickResult
           /\ mouseMove[1] = kb
           /\ mouseMove[2] = IF MouseActive(kb) THEN FlickResult(kb, direction)
                             ELSE NoFlickResult
           /\ IF TouchActive(kb)
              THEN /\ touchEnd[1] = Ended(kb)
                   /\ touchEnd[2] = AfterRelease(kb, game, direction)
                   /\ Len(touchEnd[2].strokes) <= Len(game.strokes) + 1
              ELSE touchEnd = <<kb, game>>
           /\ IF MouseActive(kb)
              THEN /\ mouseUp[1] = [Ended(kb) EXCEPT !.isDragging = FALSE]
                   /\ mouseUp[2] = AfterRelease(kb, game, direction)
                   /\ Len(mouseUp[2].strokes) <= Len(game.strokes) + 1
              ELSE mouseUp = <<kb, game>>

\* the finger has flicked left on the diacritic key and the release has called
\* the input callback with the semi-voiced mark; no gesture is active
C12_Witness ==
    /\ lastInput.char = "hdk" /\ lastInput.direction = "left"
    /\ ~TouchActive(kb) /\ pointer.touch = NoKey
    /\ \A i \in KeyIndexes : dom.flickDirection[i] = Null

\* the characters of the key element a pointer went down on
KeyChars(keyIndex) ==
    IF keyIndex = NoKey THEN {}
    ELSE {HiraganaLayout[keyIndex + 1][d] : d \in Directions} \ {Null}

\* C13: a press that arrives while a gesture is active keeps the active key and
\* the start coordinates, and a release calls the input callback only with a
\* character of the key element its own press went down on.
C13_OneGestureAtATime ==
    [][/\ ( /\ TouchActive(kb)
            /\ \/ pointer.touch = NoKey /\ pointer'.touch # NoKey
               \/ ~pointer.mouseDown /\ pointer'.mouseDown )
          => /\ kb'.activeKey = kb.activeKey
             /\ kb'.startX = kb.startX /\ kb'.startY = kb.startY
       /\ (pointer.touch # NoKey /\ pointer'.touch = NoKey /\ lastInput'.char # Null)
          => lastInput'.char \in KeyChars(pointer.touch)
       /\ (pointer.mouseDown /\ ~pointer'.mouseDown /\ lastInput'.char # Null)
          => lastInput'.char \in KeyChars(game.activeKeyElement)]_vars

\* C14: a release whose direction has no character bound on the active key ends
\* the gesture and nothing else: the result's character is null, the input
\* callback is not called and the game screen, its strokes, cursor and pending
\* composition with it, is as it was.  A character that is not in the index has
\* no key, no direction and key index -1.
C14_UnboundReleaseIsNoOp ==
    /\ \A x \in CoordsX, y \in CoordsY :
          LET direction == CalculateDirection(kb.startX, kb.startY, x, y)
          IN GetCharacterForDirection(kb, direction) = Null =>
                /\ FlickResult(kb, direction).character = Null
                /\ TouchActive(kb) =>
                      /\ HandleTouchEnd(kb, game, x, y) = <<Ended(kb), game>>
                      /\ InputCall(kb, game, x, y).char = Null
                /\ MouseActive(kb) =>
                      /\ HandleMouseUp(kb, game, x, y)
                            = <<[Ended(kb) EXCEPT !.isDragging = FALSE], game>>
                      /\ InputCall(kb, game, x, y).char = Null
    /\ \A char \in LookupChars \ DOMAIN kb.charToKey :
          /\ GetKeyForChar(kb, char) = Null
          /\ GetDirectionForChar(kb, char) = Null
          /\ GetKeyIndexForChar(kb, char) = -1

\* with a base character pending, the finger has flicked to a side of a key
\* that binds no character there: the gesture has ended and nothing is committed
C14_Witness ==
    /\ Running /\ lastInput.char = Null /\ lastInput.direction \in {"left", "right"}
    /\ ~TouchActive(kb)
    /\ game.pendingBaseChar # Null
    /\ game.strokes = <<>> /\ game.currentIndex = 0

(***************************************************************************)
(* The direction classification of a FlickKeyboard driven on its own, for  *)
(* a family of thresholds and every drag between the points of a grid.     *)
(***************************************************************************)
\* the drags end at the points of the grid -MaxDrag..MaxDrag in x and y
MaxDrag == 3

DragCoords == (0 - MaxDrag)..MaxDrag

\* the drags start at these coordinates in x and y
StartCoords == {0, 1}

\* config.ui.flickThreshold of the family: from none to longer than the axes
Thresholds == 0..(MaxDrag + 1)

DirectionInit ==
    /\ NoSession
    /\ kb = FlickKeyboardNew("hiragana")
    /\ \E threshold \in Thresholds : probe = [call |-> "new", threshold |-> threshold]

\* handleTouchStart on the first key
StartAt(x, y) ==
    /\ kb' = HandleTouchStart(kb, 0, x, y)
    /\ probe' = [call |-> "handleTouchStart", threshold |-> probe.threshold]
    /\ UNCHANGED <<game, intervals, dom, screen, navData, pointer, lastInput>>

\* calculateDirection(endX, endY)
Classify(endX, endY) ==
    /\ kb.activeKey # NoKey
    /\ probe' = [call |-> "calculateDirection", threshold |-> probe.threshold,
                 dx |-> endX - kb.startX, dy |-> endY - kb.startY,
                 direction |-> CalculateDirectionOf(probe.threshold, kb.startX, kb.startY,
                                                    endX, endY)]
    /\ UNCHANGED <<game, kb, intervals, dom, screen, navData, pointer, lastInput>>

DirectionNext ==
    \/ \E x \in StartCoords, y \in StartCoords : StartAt(x, y)
    \/ \E endX \in DragCoords, endY \in DragCoords : Classify(endX, endY)

DirectionSpec == DirectionInit /\ [][DirectionNext]_vars

\* the last call classified a drag
Classified == probe.call = "calculateDirection"

\* the square of the drag's Euclidean length against the square of the threshold
ShorterThanThreshold ==
    probe.dx * probe.dx + probe.dy * probe.dy < probe.threshold * probe.threshold

\* C15: a drag strictly shorter than the threshold is classified center whatever
\* its angle, the zero vector included, and a drag as long as the threshold or
\* longer is never classified center.
C15_CenterIffBelowThreshold ==
    Classified => (probe.direction = "center" <=> ShorterThanThreshold)

\* a diagonal drag shorter than the threshold has been classified center
C15_Witness ==
    /\ Classified /\ probe.direction = "center"
    /\ probe.dx = -1 /\ probe.dy = 1 /\ probe.threshold = 2

\* the bucket of the angle of the drag (dx, dy), in screen coordinates: the octant
\* bounds of [-45, 45), [45, 135) and [-135, -45) degrees, atan2(0, 0) being 0
BucketOfAngle(dx, dy) ==
    IF (dx > 0 /\ 0 - dx <= dy /\ dy < dx) \/ (dx = 0 /\ dy = 0) THEN "right"
    ELSE IF dy > 0 /\ 0 - dy < dx /\ dx <= dy THEN "down"
    ELSE IF dy < 0 /\ dy <= dx /\ dx < 0 - dy THEN "up"
    ELSE "left"

\* C16: every drag is classified as one of the five directions, the same one
\* whenever it is classified; a drag as long as the threshold or longer is right
\* with its angle in [-45, 45) degrees, down in [45, 135), up in [-135, -45) and
\* left everywhere else, so a drag along the positive x axis is right, along the
\* positive y axis down, along the negative x axis left and along the negative y
\* axis up.
C16_TotalAndBucketed ==
    Classified =>
        /\ probe.direction \in Directions
        /\ ~ShorterThanThreshold =>
              /\ probe.direction = BucketOfAngle(probe.dx, probe.dy)
              /\ (probe.dx > 0 /\ probe.dy = 0) => probe.direction = "right"
              /\ (probe.dx = 0 /\ probe.dy > 0) => probe.direction = "down"
              /\ (probe.dx < 0 /\ probe.dy = 0) => probe.direction = "left"
              /\ (probe.dx = 0 /\ probe.dy < 0) => probe.direction = "up"

\* a drag straight up the screen, as long as the threshold, has been classified up
C16_Witness ==
    /\ Classified /\ probe.direction = "up"
    /\ probe.dx = 0 /\ probe.dy = 0 - MaxDrag /\ probe.threshold = MaxDrag

\* C17: a drag as long as the threshold or longer that lies on a diagonal falls
\* into the bucket the diagonal is the lower bound of: 45 degrees (dy = dx > 0) is
\* down, 135 degrees (dy = -dx, dx < 0) is left, -135 degrees (dy = dx < 0) is up
\* and -45 degrees (dy = -dx, dx > 0) is right.
C17_DiagonalsLowerInclusive ==
    (Classified /\ ~ShorterThanThreshold) =>
        /\ (probe.dy = probe.dx /\ probe.dx > 0) => probe.direction = "down"
        /\ (probe.dy = 0 - probe.dx /\ probe.dx < 0) => probe.direction = "left"
        /\ (probe.dy = probe.dx /\ probe.dx < 0) => probe.direction = "up"
        /\ (probe.dy = 0 - probe.dx /\ probe.dx > 0) => probe.direction = "right"

\* a drag at exactly 45 degrees, longer than the threshold, has been classified
\* down
C17_Witness ==
    /\ Classified /\ probe.direction = "down"
    /\ probe.dx = 2 /\ probe.dy = 2 /\ probe.threshold = 2

(***************************************************************************)
(* Two CharacterGenerators constructed with one seed and one input mode    *)
(* and called on their own: probe holds both, the text each has returned   *)
(* so far, and the last call.                                              *)
(***************************************************************************)
\* the longest string a call of the family asks for, the session's chunks apart
MaxGenerate == 2

\* calls made on one generator
MaxCalls == 2

\* the lengths asked for: short ones, and the session's first chunk and later
\* chunks
GenerateLengths == (0..MaxGenerate) \cup {InitialChars, ChunkChars}

\* a generator with the text it has returned and the calls made on it
Called(gen) == [gen |-> gen, text |-> <<>>, calls |-> 0]

GeneratorInit ==
    /\ NoSession
    /\ kb = FlickKeyboardNew("hiragana")
    /\ \E seed \in Seeds, inputMode \in InputModes :
          probe = [call |-> "new", seed |-> seed, inputMode |-> inputMode,
                   first |-> Called(CharacterGeneratorNew(seed, inputMode)),
                   second |-> Called(CharacterGeneratorNew(seed, inputMode))]

\* generate(length) on one of the two
CallGenerate(c, length) ==
    LET r == GenerateOn(c.gen, length)
    IN [gen |-> r[2], text |-> c.text \o r[1], calls |-> c.calls + 1]

\* the session asks for its first chunk first and for its later chunks after it
SessionOrder(c, length) ==
    /\ length = InitialChars => c.calls = 0
    /\ length = ChunkChars => Len(c.text) >= InitialChars

\* the first generator is called several times
GenerateFirst(length) ==
    /\ probe.first.calls < MaxCalls
    /\ SessionOrder(probe.first, length)
    /\ probe' = [call |-> "generate", seed |-> probe.seed, inputMode |-> probe.inputMode,
                 first |-> CallGenerate(probe.first, length), second |-> probe.second,
                 length |-> length, result |-> GenerateOn(probe.first.gen, length)[1]]
    /\ UNCHANGED <<game, kb, intervals, dom, screen, navData, pointer, lastInput>>

\* the second generator is called once
GenerateSecond(length) ==
    /\ probe.second.calls = 0
    /\ SessionOrder(probe.second, length)
    /\ probe' = [call |-> "generate", seed |-> probe.seed, inputMode |-> probe.inputMode,
                 first |-> probe.first, second |-> CallGenerate(probe.second, length),
                 length |-> length, result |-> GenerateOn(probe.second.gen, length)[1]]
    /\ UNCHANGED <<game, kb, intervals, dom, screen, navData, pointer, lastInput>>

GeneratorNext ==
    \/ \E length \in GenerateLengths : GenerateFirst(length)
    \/ \E length \in GenerateLengths : GenerateSecond(length)

GeneratorSpec == GeneratorInit /\ [][GeneratorNext]_vars

Min(a, b) == IF a < b THEN a ELSE b

\* C21: two generators newly constructed with one seed and one input mode return
\* the same character at every position both have reached: after one call on
\* each, generate(n) on the one and generate(m) on the other, the two strings
\* are equal in their first min(n, m) characters, and they stay so whatever
\* further calls the first one takes.
C21_GeneratorDeterminism ==
    \A i \in 1..Min(Len(probe.first.text), Len(probe.second.text)) :
        probe.first.text[i] = probe.second.text[i]

\* each generator has been called once, for strings of different lengths that
\* hold more than one character
C21_Witness ==
    /\ probe.first.calls = 1 /\ probe.second.calls = 1
    /\ Len(probe.first.text) = MaxGenerate /\ Len(probe.second.text) = InitialChars
    /\ \E i \in 1..MaxGenerate : probe.first.text[i] # probe.first.text[1]

\* the random state after n draws; a state is a number from 0 on
RECURSIVE Draws(_, _)
Draws(random, n) ==
    IF n = 0 \/ random < 0 THEN random ELSE Draws(RandomNext(random), n - 1)

\* a single call on a generator newly constructed with the seed and the mode
SingleCall(length) ==
    GenerateOn(CharacterGeneratorNew(probe.seed, probe.inputMode), length)

\* C22: generate(n) returns n characters and draws once for each of them, so the
\* text a generator has returned over its calls, the session's first chunk and
\* later chunks among them, is the string of that length a single call on a new
\* generator with the same seed returns, and the generator has drawn as many
\* times as the text is long.
C22_ChunkedIsSingleCall ==
    /\ probe.call = "generate" => Len(probe.result) = probe.length
    /\ \A c \in {probe.first, probe.second} :
          LET single == SingleCall(Len(c.text))
          IN /\ c.text = single[1]
             /\ c.gen = single[2]
             /\ c.gen.random = Draws(SeededRandomNew(probe.seed), Len(c.text))

\* a generator has returned the session's first chunk and then its later chunks
C22_Witness ==
    /\ probe.call = "generate" /\ probe.length = ChunkChars
    /\ probe.first.calls = MaxCalls
    /\ Len(probe.first.text) = InitialChars + (MaxCalls - 1) * ChunkChars

(***************************************************************************)
(* The result screen's rank, for a family of rank thresholds and every     *)
(* score up to a bound.                                                    *)
(***************************************************************************)
\* the highest score and the highest threshold of the family
MaxCpm == 5

Cpms == 0..MaxCpm

\* config.ranking of the family: any four cutoffs, and D at 0
Rankings == [S : Cpms, A : Cpms, B : Cpms, C : Cpms, D : {0}]

\* a slip: a score has to exceed the threshold
CalculateRankStrict(cpm, ranking) ==
    IF cpm > ranking.S THEN "S"
    ELSE IF cpm > ranking.A THEN "A"
    ELSE IF cpm > ranking.B THEN "B"
    ELSE IF cpm > ranking.C THEN "C"
    ELSE "D"

\* calculateRank(cpm, config)
CalculateRank(cpm, ranking) ==
    IF cpm >= ranking.S THEN "S"
    ELSE IF cpm >= ranking.A THEN "A"
    ELSE IF cpm >= ranking.B THEN "B"
    ELSE IF cpm >= ranking.C THEN "C"
    ELSE "D"

RankInit ==
    /\ NoSession
    /\ kb = FlickKeyboardNew("hiragana")
    /\ \E ranking \in Rankings : probe = [call |-> "new", ranking |-> ranking]

\* the result screen renders the rank of a score
RenderRank(cpm) ==
    /\ probe' = [call |-> "calculateRank", ranking |-> probe.ranking, cpm |-> cpm,
                 rank |-> CalculateRank(cpm, probe.ranking)]
    /\ UNCHANGED <<game, kb, intervals, dom, screen, navData, pointer, lastInput>>

RankNext == \E cpm \in Cpms : RenderRank(cpm)

RankSpec == RankInit /\ [][RankNext]_vars

\* the grades in the order they are checked, and the place of a rank in it: D
\* comes after them
Grades == <<"S", "A", "B", "C">>
Place(rank) == IF rank = "D" THEN 5 ELSE CHOOSE i \in 1..4 : Grades[i] = rank

\* the thresholds fall from S to C
Descending(ranking) ==
    ranking.S > ranking.A /\ ranking.A > ranking.B /\ ranking.B > ranking.C

\* C24: the rank of a score is the first of the grades S, A, B, C whose threshold
\* the score meets or exceeds, and D when it meets none; with thresholds falling
\* from S to C a higher score never has a worse rank, and a score equal to the
\* threshold of a grade has that grade.
C24_RankFirstThresholdMet ==
    probe.call = "calculateRank" =>
        /\ \A i \in 1..4 :
              probe.rank = Grades[i] <=>
                  /\ probe.cpm >= probe.ranking[Grades[i]]
                  /\ \A j \in 1..(i - 1) : probe.cpm < probe.ranking[Grades[j]]
        /\ probe.rank = "D" <=> \A i \in 1..4 : probe.cpm < probe.ranking[Grades[i]]
        /\ Descending(probe.ranking) =>
              /\ \A higher \in Cpms :
                    higher >= probe.cpm =>
                        Place(CalculateRank(higher, probe.ranking)) <= Place(probe.rank)
              /\ \A i \in 1..4 :
                    probe.cpm = probe.ranking[Grades[i]] => probe.rank = Grades[i]

\* with falling thresholds, a score equal to the threshold of B has been ranked B
C24_Witness ==
    /\ probe.call = "calculateRank" /\ Descending(probe.ranking)
    /\ probe.ranking.C > 0
    /\ probe.cpm = probe.ranking.B /\ probe.rank = "B"

(***************************************************************************)
(* The score storage and the clipboard, called on their own: probe holds   *)
(* the item under STORAGE_KEY, the saveRecord calls made, whether storage  *)
(* has worked so far, and the last call with the fault it met and what it  *)
(* returned.                                                               *)
(***************************************************************************)
\* saveRecord calls of one history
MaxSaves == 102

\* records.slice(-100)
KeepRecords == 100

\* localStorage.getItem on a key never set: null
NoItem == [present |-> FALSE, parses |-> FALSE, value |-> <<>>]

\* JSON.stringify(records): a text JSON.parse takes back to the records
JsonStringify(records) == [present |-> TRUE, parses |-> TRUE, value |-> records]

\* an item that is no JSON text
Garbage == [present |-> TRUE, parses |-> FALSE, value |-> <<>>]

\* a call's outcome: it returned value, or it threw
Returned(value) == [threw |-> FALSE, value |-> value]
Threw == [threw |-> TRUE, value |-> <<>>]

\* a slip: the exception is passed on
TryCatchRethrowing(outcome, fallback) == outcome

\* try { ... } catch { return fallback }
TryCatch(outcome, fallback) == IF outcome.threw THEN Returned(fallback) ELSE outcome

\* the faults a call can meet: getItem throws, the item does not parse, setItem
\* throws, writeText rejects
Faults == {"none", "read", "write", "clipboard"}

\* getAllRecords()
GetAllRecords(item, fault) ==
    TryCatch(IF fault = "read" THEN Threw
             ELSE IF ~item.present THEN Returned(<<>>)
             ELSE IF ~item.parses THEN Threw
             ELSE Returned(item.value),
             <<>>)

\* a slip: the oldest records are kept
SliceFirst(records, n) == SubSeq(records, 1, IF Len(records) > n THEN n ELSE Len(records))

\* records.slice(-n)
SliceLast(records, n) ==
    SubSeq(records, IF Len(records) > n THEN Len(records) - n + 1 ELSE 1, Len(records))

\* saveRecord(record): <<the item afterwards, the call's outcome>>
SaveRecord(item, record, fault) ==
    LET records == GetAllRecords(item, fault)
        trimmed == SliceLast(Append(records.value, record), KeepRecords)
        body == IF records.threw \/ fault = "write" THEN Threw ELSE Returned(<<>>)
        outcome == TryCatch(body, <<>>)
    IN << IF body.threw THEN item ELSE JsonStringify(trimmed), outcome >>

\* copyResultToClipboard(result): what the promise settles with
CopyResultToClipboard(fault) ==
    TryCatch(IF fault = "clipboard" THEN Threw ELSE Returned(TRUE), FALSE)

\* the record the n-th saveRecord call saves
GameRecord(n) == [id |-> n]

StorageInit ==
    /\ NoSession
    /\ kb = FlickKeyboardNew("hiragana")
    /\ probe = [call |-> "new", item |-> NoItem, saves |-> 0, working |-> TRUE,
                fault |-> "none", outcome |-> Returned(<<>>)]

\* the result screen saves the record of a session; storage fails at most once
SaveRecordCall(fault) ==
    /\ probe.saves < MaxSaves
    /\ fault \in {"none", "read", "write"}
    /\ fault # "none" => probe.working
    /\ LET r == SaveRecord(probe.item, GameRecord(probe.saves + 1), fault)
       IN probe' = [call |-> "saveRecord", item |-> r[1], saves |-> probe.saves + 1,
                    working |-> probe.working /\ fault = "none",
                    fault |-> fault, outcome |-> r[2]]
    /\ UNCHANGED <<game, kb, intervals, dom, screen, navData, pointer, lastInput>>

\* something else writes the item: it is no JSON text any more
SpoilItem ==
    /\ probe.working
    /\ probe' = [probe EXCEPT !.call = "spoil", !.item = Garbage, !.working = FALSE,
                              !.fault = "none", !.outcome = Returned(<<>>)]
    /\ UNCHANGED <<game, kb, intervals, dom, screen, navData, pointer, lastInput>>

\* a screen reads the records
GetAllRecordsCall(fault) ==
    /\ fault \in {"none", "read"}
    /\ probe' = [probe EXCEPT !.call = "getAllRecords", !.fault = fault,
                              !.outcome = GetAllRecords(probe.item, fault)]
    /\ UNCHANGED <<game, kb, intervals, dom, screen, navData, pointer, lastInput>>

\* the result screen's copy button
CopyResultCall(fault) ==
    /\ fault \in {"none", "clipboard"}
    /\ probe' = [probe EXCEPT !.call = "copyResultToClipboard", !.fault = fault,
                              !.outcome = CopyResultToClipboard(fault)]
    /\ UNCHANGED <<game, kb, intervals, dom, screen, navData, pointer, lastInput>>

StorageNext ==
    \/ \E fault \in Faults : SaveRecordCall(fault)
    \/ SpoilItem
    \/ \E fault \in Faults : GetAllRecordsCall(fault)
    \/ \E fault \in Faults : CopyResultCall(fault)

StorageSpec == StorageInit /\ [][StorageNext]_vars

\* C25: while storage works, after any number of saveRecord calls the stored
\* list holds at most 100 records, and they are the records of the latest calls
\* in the order of the calls.
C25_KeepsLatestRecords ==
    (probe.working /\ probe.saves > 0) =>
        LET kept == IF probe.saves > KeepRecords THEN KeepRecords ELSE probe.saves
        IN /\ probe.item.present /\ probe.item.parses
           /\ Len(probe.item.value) = kept
           /\ Len(probe.item.value) <= KeepRecords
           /\ \A i \in 1..kept :
                 probe.item.value[i] = GameRecord(probe.saves - kept + i)

\* more than a hundred records have been saved: the first ones are gone
C25_Witness ==
    /\ probe.working /\ probe.call = "saveRecord" /\ probe.saves = MaxSaves
    /\ Len(probe.item.value) = KeepRecords
    /\ probe.item.value[1] = GameRecord(MaxSaves - KeepRecords + 1)
    /\ probe.item.value[KeepRecords] = GameRecord(MaxSaves)

\* C26: no call on the storage or the clipboard throws: getAllRecords returns
\* the empty list when getItem throws or the item does not parse, saveRecord
\* returns when the read or the write fails, and copyResultToClipboard settles
\* with false when the clipboard fails and with true when it does not.
C26_FailuresDegradeSilently ==
    /\ ~probe.outcome.threw
    /\ (/\ probe.call = "getAllRecords"
        /\ probe.fault = "read" \/ (probe.item.present /\ ~probe.item.parses))
          => probe.outcome = Returned(<<>>)
    /\ (probe.call = "saveRecord" /\ probe.fault # "none") => probe.outcome = Returned(<<>>)
    /\ probe.call = "copyResultToClipboard" =>
          probe.outcome = Returned(probe.fault # "clipboard")

\* records were saved, the item was spoiled, and the records have been read
C26_Witness ==
    /\ probe.call = "getAllRecords" /\ probe.fault = "none"
    /\ probe.saves > 0 /\ probe.item = Garbage
    /\ probe.outcome = Returned(<<>>)

(***************************************************************************)
(* The stroke log and the practice text within a session.                  *)
(***************************************************************************)
\* s is the beginning of t
IsPrefix(s, t) == Len(s) <= Len(t) /\ SubSeq(t, 1, Len(s)) = s

\* the step is GameScreen.render: a session begins, with an empty log and a
\* new practice text
SessionBegins == screen # "game" /\ screen' = "game"

\* C28: within a session the stroke log is append-only and the practice text
\* only grows at its end: every step other than the render that begins a
\* session, an input, a timer tick, the quit button or the way back to the top
\* screen, leaves the strokes it found as they were and where they were, and
\* the text it found as it was up to the end it had.
C28_StrokeLogAppendOnly ==
    [][~SessionBegins =>
          /\ IsPrefix(game.strokes, game'.strokes)
          /\ IsPrefix(game.characters, game'.characters)]_vars

\* two strokes are in the log, they differ, and the text has grown by a chunk
C28_Witness ==
    /\ screen = "game"
    /\ Len(game.strokes) = 2 /\ game.strokes[1] # game.strokes[2]
    /\ Len(game.characters) = InitialChars + ChunkChars

\* C29: in every reachable state the composition state is consistent: the
\* pending base is null exactly when the pending kind is null; the press
\* counter is 0 or 1, and 1 only while a handakuten composition is pending;
\* and while a composition is pending the expected character needs a
\* diacritic, the pending base is its base character and the pending kind is
\* the kind it needs.
C29_CompositionConsistent ==
    /\ (game.pendingBaseChar = Null) <=> (game.pendingDakutenType = Null)
    /\ game.pendingDakutenCount \in {0, 1}
    /\ game.pendingDakutenCount = 1 => game.pendingDakutenType = "handakuten"
    /\ game.pendingBaseChar # Null =>
          /\ NeedsDakuten(Expected(game)) # Null
          /\ game.pendingBaseChar = GetBaseChar(Expected(game))
          /\ game.pendingDakutenType = NeedsDakuten(Expected(game))

\* C30: a step that calls the input callback while a base is pending and
\* commits a stroke commits, when the character is the toggle "dkt" (its one
\* press for a dakuten, its second press for a handakuten), a correct stroke
\* whose input is the expected character; and the stroke it commits is a miss
\* only when the character is the separate "hdk" and the pending kind is
\* dakuten.
C30_ToggleCompletionCorrect ==
    [][(/\ InputAccepted(game) /\ game.pendingBaseChar # Null
        /\ lastInput'.char # Null
        /\ Len(game'.strokes) = Len(game.strokes) + 1) =>
          LET stroke == game'.strokes[Len(game'.strokes)]
          IN /\ lastInput'.char = "dkt" =>
                   stroke.correct /\ stroke.input = Expected(game)
             /\ ~stroke.correct =>
                   lastInput'.char = "hdk" /\ game.pendingDakutenType = "dakuten"]_vars

\* C31: while the session is running, the separate "hdk" resolves a pending
\* composition in one press: with the pending kind handakuten it commits the
\* semi-voiced character of the pending base as a correct stroke, with the
\* pending kind dakuten it commits a miss, and either way the cursor advances
\* by 1 and the machine is Idle; a "dkt" or "hdk" received in Idle changes
\* nothing.
C31_SeparateHandakuten ==
    Running =>
        /\ \A d \in DirectionsOf("hdk") :
              LET g1 == HandleFlickInput(game, "hdk", d)
                  semiVoiced == MapGet(HandakutenMap, game.pendingBaseChar)
              IN /\ game.pendingDakutenType = "handakuten" =>
                       /\ g1.strokes = Append(game.strokes,
                                              Stroke(semiVoiced, Expected(game), TRUE, d))
                       /\ g1.currentIndex = game.currentIndex + 1
                       /\ FullyIdle(g1)
                 /\ game.pendingDakutenType = "dakuten" =>
                       /\ Len(g1.strokes) = Len(game.strokes) + 1
                       /\ ~g1.strokes[Len(g1.strokes)].correct
                       /\ g1.currentIndex = game.currentIndex + 1
                       /\ FullyIdle(g1)
        /\ Idle(game) =>
              \A c \in Toggles : \A d \in DirectionsOf(c) :
                  HandleFlickInput(game, c, d) = game

\* C32: inputs are accepted only while the game is running.  In every state
\* that is not running (the countdown, after the timer has expired, after
\* quit) the input callback, whatever character it is handed, leaves the
\* GameScreen as it is: no stroke, the cursor and the composition state
\* unchanged.  The countdown and running flags are never both true.  The
\* countdown value changes only by being set to the configured length at
\* render or by a tick taking 1 off, and the running flag is raised only by
\* the tick that takes the countdown value to 0.
C32_InputsOnlyWhileRunning ==
    /\ [](~Running =>
             \A c \in LayoutChars : \A d \in DirectionsOf(c) :
                 HandleFlickInput(game, c, d) = game)
    /\ [](~(game.isCountdown /\ game.isRunning))
    /\ [][/\ game'.countdownValue # game.countdownValue =>
                \/ SessionBegins /\ game'.countdownValue = CountdownSeconds
                \/ game.isCountdown /\ game'.countdownValue = game.countdownValue - 1
          /\ (game'.isRunning /\ ~game.isRunning) =>
                /\ game.isCountdown /\ ~game'.isCountdown
                /\ game.countdownValue = 1 /\ game'.countdownValue = 0]_vars

\* the input callback has fired during the countdown, after its first tick
C32_Witness ==
    /\ game.isCountdown /\ game.countdownValue < CountdownSeconds
    /\ lastInput.char # Null

\* the step is endGame's navigateTo('result', result)
SessionEnds == screen = "game" /\ screen' = "result"

\* C33: a session that is not quit ends exactly once.  The remaining time
\* changes only by being set to the configured duration when the game starts
\* or by a tick of the game timer taking 1 off; it is never negative.  The
\* session ends on the tick that takes the remaining time from 1 to 0, and a
\* tick that takes it to 0 ends the session, so no other tick does.  That step
\* delivers the result of the stroke log, and once the game screen is left no
\* timer is running, so no tick follows and the session cannot end again.
C33_EndsExactlyOnce ==
    /\ [](game.timeRemaining >= 0)
    /\ [](screen # "game" => intervals = {})
    /\ [][/\ game'.timeRemaining # game.timeRemaining =>
                \/ /\ game'.isRunning /\ ~game.isRunning
                   /\ game'.timeRemaining = Duration
                \/ /\ "game" \in intervals /\ game.isRunning
                   /\ game'.timeRemaining = game.timeRemaining - 1
          /\ SessionEnds <=>
                /\ "game" \in intervals
                /\ game.timeRemaining = 1 /\ game'.timeRemaining = 0
          /\ SessionEnds =>
                /\ navData' = GameResult(game)
                /\ ~game'.isRunning /\ intervals' = {}]_vars

\* the timer has run out: the result screen is shown with a stroke in the log
C33_Witness ==
    /\ screen = "result" /\ navData.to = "result"
    /\ game.timeRemaining = 0 /\ ~game.isRunning
    /\ Len(game.strokes) > 0 /\ navData.strokes = game.strokes

\* the session with its timers: a running setInterval timer fires again and
\* again, so a tick that stays enabled is eventually taken
LiveSpec == Init /\ [][Next]_vars /\ WF_vars(CountdownTick) /\ WF_vars(GameTick)

\* C34: under fair timer ticks a rendered session that is not quit (the quit
\* button leads to the top screen) finishes its countdown and starts, and
\* reaches the result screen with the running flag false, whatever inputs
\* arrive in between.
C34_SessionFinishes ==
    /\ (screen = "game" /\ game.isCountdown) ~> (game.isRunning \/ screen = "top")
    /\ (screen = "game") ~> (screen = "top" \/ (screen = "result" /\ ~game.isRunning))

\* the timer has run out on a session in which every stroke of the model was made
C34_Witness ==
    /\ screen = "result" /\ ~game.isRunning /\ ~game.isCountdown
    /\ Len(game.strokes) = MaxStrokes

\* C35: quitting cancels the session for good.  On the top screen, where the
\* quit button's cleanup and navigateTo('top') lead, no timer is running, the
\* flags and the timer handles are cleared and no result is held; and from
\* there nothing happens to the session until a new one is rendered: no tick,
\* no start, no end, and no step to the result screen, whose render is what
\* saves a record.
C35_QuitCancels ==
    /\ [](screen = "top" =>
             /\ intervals = {}
             /\ ~game.isRunning /\ ~game.isCountdown
             /\ ~game.gameTimer /\ ~game.countdownTimer
             /\ navData = NoNavData)
    /\ [][screen = "top" =>
             \/ SessionBegins
             \/ /\ game' = game /\ intervals' = intervals
                /\ screen' = "top" /\ navData' = navData]_vars

\* the quit button has been pressed during play, after a stroke
C35_Witness ==
    /\ screen = "top" /\ navData = NoNavData
    /\ Len(game.strokes) > 0 /\ game.timeRemaining > 0

\* C36: the cursor always points at a generated character: in every state
\* from the first render on, the practice text is at least
\* cursor + visibleCharsAfter + 50 characters long, so the expected character
\* is a character of the text however many strokes have been committed.
C36_CursorInsideText ==
    game.gameData # NoGameData =>
        /\ Len(game.characters) >= game.currentIndex + VisibleCharsAfter + LookAhead
        /\ game.currentIndex + 1 \in DOMAIN game.characters
        /\ \E i \in DOMAIN GeneratorCharacters : Expected(game) = GeneratorCharacters[i]

\* the cursor has moved far enough for the text to have grown
C36_Witness ==
    /\ screen = "game" /\ game.isRunning
    /\ game.currentIndex = MaxStrokes
    /\ game.currentIndex + VisibleCharsAfter + LookAhead > InitialChars
    /\ Len(game.characters) > InitialChars

\* C37: one mouse release yields at most one input.  A step that releases the
\* mouse button, over the key it was pressed on, over another key or outside
\* every key, is processed by handleMouseUp with effect exactly once: the
\* release is handled as the end of a gesture, the drag and the active key are
\* cleared and the active key element is released; and the input callback has
\* run once with the character of the release, or not at all if none is bound.
C37_OneReleaseOneInput ==
    [][(pointer.mouseDown /\ ~pointer'.mouseDown) =>
          /\ lastInput'.direction # Null
          /\ ~kb'.isDragging /\ kb'.activeKey = NoKey
          /\ game'.activeKeyElement = NoKey
          /\ [game' EXCEPT !.activeKeyElement = game.activeKeyElement]
                = IF lastInput'.char # Null
                  THEN HandleFlickInput(game, lastInput'.char, lastInput'.direction)
                  ELSE game]_vars

\* the strokes of a log whose expected character is x, correct or not
StrokesAt(strokes, x, flag) ==
    {i \in 1..Len(strokes) : strokes[i].expected = x /\ strokes[i].correct = flag}

\* the sum of a field of the tallies over the characters tallied
RECURSIVE SumTallies(_, _, _)
SumTallies(charStats, chars, field) ==
    IF chars = {} THEN 0
    ELSE LET x == CHOOSE c \in chars : TRUE
         IN charStats[x][field] + SumTallies(charStats, chars \ {x}, field)

\* C38: the result a session ends with is consistent with its stroke log:
\* correctCount + missCount is the number of strokes and the cursor's final
\* position; every character that was expected at a stroke has a tally whose
\* correct and miss are the numbers of correct and incorrect strokes expecting
\* it, and no other character has one, so the tallies sum to correctCount and
\* missCount; with an empty log the accuracy and the CPM are both 0.
C38_ResultMatchesLog ==
    screen = "result" =>
        LET strokes == navData.strokes
            charStats == navData.charStats
        IN /\ strokes = game.strokes
           /\ navData.correctCount + navData.missCount = Len(strokes)
           /\ Len(strokes) = game.currentIndex
           /\ DOMAIN charStats = {strokes[i].expected : i \in 1..Len(strokes)}
           /\ \A x \in DOMAIN charStats :
                 /\ charStats[x].correct = Cardinality(StrokesAt(strokes, x, TRUE))
                 /\ charStats[x].miss = Cardinality(StrokesAt(strokes, x, FALSE))
           /\ SumTallies(charStats, DOMAIN charStats, "correct") = navData.correctCount
           /\ SumTallies(charStats, DOMAIN charStats, "miss") = navData.missCount
           /\ strokes = <<>> =>
                 /\ SameQuotient(navData.accuracy, <<0, 1>>)
                 /\ SameQuotient(navData.cpm, <<0, 1>>)

\* a session has ended with a hit at one character and a miss at another, the
\* miss made with a character other than the expected one
C38_Witness ==
    /\ screen = "result" /\ Len(navData.strokes) = 2
    /\ Cardinality(DOMAIN navData.charStats) = 2
    /\ navData.strokes[1].correct /\ ~navData.strokes[2].correct
    /\ navData.strokes[2].input \notin DOMAIN navData.charStats

(***************************************************************************)
(* The default configuration's layouts in full, kana in romaji and signs   *)
(* by name, and a keyboard constructed with them and looked up on its own. *)
(***************************************************************************)
\* a slip: a character of the fifth key is placed on the eleventh too
DefaultHiraganaLayoutRepeating ==
    << FlickKey("a", "u", "o", "i", "e"),
       FlickKey("ka", "ku", "ko", "ki", "ke"),
       FlickKey("sa", "su", "so", "si", "se"),
       FlickKey("ta", "tu", "to", "ti", "te"),
       FlickKey("na", "nu", "no", "ni", "ne"),
       FlickKey("ha", "hu", "ho", "hi", "he"),
       FlickKey("ma", "mu", "mo", "mi", "me"),
       FlickKey("ya", "yu", "yo", "(", ")"),
       FlickKey("ra", "ru", "ro", "ri", "re"),
       FlickKey("dkt", "small", Null, "hdk", Null),
       FlickKey("wa", "nn", "nu", "wo", "long"),
       FlickKey("comma", "?", "ellipsis", "period", "!") >>

\* getDefaultConfig().flickLayout.hiragana: center, left, up, right, down of the
\* source are the fields center, left, up, right, down of the key
DefaultHiraganaLayout ==
    << FlickKey("a", "u", "o", "i", "e"),
       FlickKey("ka", "ku", "ko", "ki", "ke"),
       FlickKey("sa", "su", "so", "si", "se"),
       FlickKey("ta", "tu", "to", "ti", "te"),
       FlickKey("na", "nu", "no", "ni", "ne"),
       FlickKey("ha", "hu", "ho", "hi", "he"),
       FlickKey("ma", "mu", "mo", "mi", "me"),
       FlickKey("ya", "yu", "yo", "(", ")"),
       FlickKey("ra", "ru", "ro", "ri", "re"),
       FlickKey("dkt", "small", Null, "hdk", Null),
       FlickKey("wa", "nn", Null, "wo", "long"),
       FlickKey("comma", "?", "ellipsis", "period", "!") >>

\* getDefaultConfig().flickLayout.alphabet
DefaultAlphabetLayout ==
    << FlickKey("@", "/", "_", "#", "&"),
       FlickKey("a", "c", "B", "b", "A"),
       FlickKey("d", "f", "E", "e", "D"),
       FlickKey("g", "i", "H", "h", "G"),
       FlickKey("j", "l", "K", "k", "J"),
       FlickKey("m", "o", "N", "n", "M"),
       FlickKey("p", "r", "P", "q", "s"),
       FlickKey("t", "v", "U", "u", "T"),
       FlickKey("w", "y", "W", "x", "z"),
       FlickKey(",", "?", "'", ".", "!"),
       FlickKey("-", "*", ":", "+", "="),
       FlickKey(" ", "1", "3", "0", "2") >>

\* getDefaultConfig().dakutenMap
DefaultDakutenMap ==
    << <<"ka", "ga">>, <<"ki", "gi">>, <<"ku", "gu">>, <<"ke", "ge">>, <<"ko", "go">>,
       <<"sa", "za">>, <<"si", "zi">>, <<"su", "zu">>, <<"se", "ze">>, <<"so", "zo">>,
       <<"ta", "da">>, <<"ti", "di">>, <<"tu", "du">>, <<"te", "de">>, <<"to", "do">>,
       <<"ha", "ba">>, <<"hi", "bi">>, <<"hu", "bu">>, <<"he", "be">>, <<"ho", "bo">> >>

\* getDefaultConfig().handakutenMap
DefaultHandakutenMap ==
    << <<"ha", "pa">>, <<"hi", "pi">>, <<"hu", "pu">>, <<"he", "pe">>, <<"ho", "po">> >>

\* a slip: the table weighs a small kana, which no key binds
DefaultHiraganaWeightsSmallKana ==
    << <<"a", 50>>, <<"i", 70>>, <<"u", 60>>, <<"e", 40>>, <<"o", 50>>,
       <<"ka", 45>>, <<"ki", 45>>, <<"ku", 45>>, <<"ke", 30>>, <<"ko", 40>>,
       <<"sa", 35>>, <<"si", 50>>, <<"su", 45>>, <<"se", 25>>, <<"so", 25>>,
       <<"ta", 45>>, <<"ti", 30>>, <<"tu", 40>>, <<"te", 50>>, <<"to", 50>>,
       <<"na", 40>>, <<"ni", 45>>, <<"nu", 10>>, <<"ne", 20>>, <<"no", 55>>,
       <<"ha", 40>>, <<"hi", 25>>, <<"hu", 25>>, <<"he", 15>>, <<"ho", 25>>,
       <<"ma", 35>>, <<"mi", 25>>, <<"mu", 20>>, <<"me", 20>>, <<"mo", 35>>,
       <<"ya", 30>>, <<"yu", 20>>, <<"yo", 35>>,
       <<"ra", 30>>, <<"ri", 35>>, <<"ru", 40>>, <<"re", 30>>, <<"ro", 25>>,
       <<"wa", 30>>, <<"wo", 25>>, <<"nn", 50>>, <<"xtu", 20>> >>

\* getDefaultConfig().generator.hiraganaWeights, the weights in tenths
DefaultHiraganaWeights ==
    << <<"a", 50>>, <<"i", 70>>, <<"u", 60>>, <<"e", 40>>, <<"o", 50>>,
       <<"ka", 45>>, <<"ki", 45>>, <<"ku", 45>>, <<"ke", 30>>, <<"ko", 40>>,
       <<"sa", 35>>, <<"si", 50>>, <<"su", 45>>, <<"se", 25>>, <<"so", 25>>,
       <<"ta", 45>>, <<"ti", 30>>, <<"tu", 40>>, <<"te", 50>>, <<"to", 50>>,
       <<"na", 40>>, <<"ni", 45>>, <<"nu", 10>>, <<"ne", 20>>, <<"no", 55>>,
       <<"ha", 40>>, <<"hi", 25>>, <<"hu", 25>>, <<"he", 15>>, <<"ho", 25>>,
       <<"ma", 35>>, <<"mi", 25>>, <<"mu", 20>>, <<"me", 20>>, <<"mo", 35>>,
       <<"ya", 30>>, <<"yu", 20>>, <<"yo", 35>>,
       <<"ra", 30>>, <<"ri", 35>>, <<"ru", 40>>, <<"re", 30>>, <<"ro", 25>>,
       <<"wa", 30>>, <<"wo", 25>>, <<"nn", 50>> >>

\* getDefaultConfig().generator.alphabetWeights, the weights in thousandths
DefaultAlphabetWeights ==
    << <<"a", 8200>>, <<"b", 1500>>, <<"c", 2800>>, <<"d", 4300>>, <<"e", 12700>>,
       <<"f", 2200>>, <<"g", 2000>>, <<"h", 6100>>, <<"i", 7000>>, <<"j", 150>>,
       <<"k", 770>>, <<"l", 4000>>, <<"m", 2400>>, <<"n", 6700>>, <<"o", 7500>>,
       <<"p", 1900>>, <<"q", 95>>, <<"r", 6000>>, <<"s", 6300>>, <<"t", 9100>>,
       <<"u", 2800>>, <<"v", 980>>, <<"w", 2400>>, <<"x", 150>>, <<"y", 2000>>,
       <<"z", 74>> >>

\* getDefaultConfig(): the parts a FlickKeyboard reads
GetDefaultConfig ==
    Config(DefaultHiraganaLayout, DefaultAlphabetLayout,
           DefaultDakutenMap, DefaultHandakutenMap)

\* the weight table the generator of a mode is constructed with
DefaultWeightConfig(inputMode) ==
    IF inputMode = "hiragana" THEN DefaultHiraganaWeights ELSE DefaultAlphabetWeights

\* this.characters of the generator: Object.keys(weightConfig), in order
CharactersOf(weightConfig) == [i \in 1..Len(weightConfig) |-> weightConfig[i][1]]

\* the characters looked up: those of both layouts, those the diacritic maps
\* compose, and one of neither
DefaultChars ==
    SlotChars(DefaultHiraganaLayout) \cup SlotChars(DefaultAlphabetLayout)
        \cup MapValues(DefaultDakutenMap) \cup MapValues(DefaultHandakutenMap)
        \cup {"none"}

\* new FlickKeyboard(getDefaultConfig(), inputMode)
DefaultInit ==
    /\ NoSession
    /\ \E inputMode \in InputModes :
          /\ kb = FlickKeyboardOf(GetDefaultConfig, inputMode)
          /\ probe = [call |-> "new", config |-> GetDefaultConfig]

DefaultNext ==
    \/ \E char \in DefaultChars : LookupChar(char)
    \/ \E mode \in InputModes : ChangeInputMode(mode)

DefaultSpec == DefaultInit /\ [][DefaultNext]_vars

\* the slots of a layout that hold the character: <<key index, direction>>
SlotsOf(layout, char) ==
    {slot \in (1..Len(layout)) \X Directions : layout[slot[1]][slot[2]] = char}

\* C27: in the default configuration every character of the hiragana layout and
\* every character of the alphabet layout is in exactly one slot of its layout,
\* so no character is in two slots, and every key has a center character; the
\* index of a keyboard constructed with it leads from each character to that slot.
C27_DefaultLayoutSlotsUnique ==
    /\ \A layout \in {probe.config.flickLayout.hiragana, probe.config.flickLayout.alphabet} :
          /\ \A char \in SlotChars(layout) : Cardinality(SlotsOf(layout, char)) = 1
          /\ \A i \in 1..Len(layout) : layout[i].center # Null
    /\ \A slot \in (1..Len(ActiveLayout)) \X Directions :
          LET char == ActiveLayout[slot[1]][slot[2]]
          IN char # Null =>
                /\ GetKeyIndexForChar(kb, char) = slot[1] - 1
                /\ GetDirectionForChar(kb, char) = slot[2]

\* a character on a side of the eleventh hiragana key has been looked up
C27_Witness ==
    /\ probe.call = "lookup" /\ probe.config = GetDefaultConfig
    /\ kb.inputMode = "hiragana"
    /\ probe.char = "wo" /\ probe.keyIndex = 10 /\ probe.direction = "left"

\* the keyboard binds the character to a key and a direction, and the flick of
\* that key in that direction gives the character
SlotReachable(k, layout, char) ==
    /\ GetKeyIndexForChar(k, char) >= 0
    /\ GetDirectionForChar(k, char) # Null
    /\ GetKeyIndexForChar(k, char) < Len(layout)
    /\ layout[GetKeyIndexForChar(k, char) + 1][GetDirectionForChar(k, char)] = char

\* C39: every character the generator of the default configuration can emit is
\* typeable on the keyboard built for the same mode: each key of the mode's
\* weight table has a key index >= 0 and a direction other than null, the flick
\* found that way gives the character, or the character is one a diacritic map
\* composes and its base character has such a flick.
C39_GeneratedCharsTypeable ==
    LET characters == CharactersOf(DefaultWeightConfig(kb.inputMode))
    IN /\ Len(characters) > 0
       /\ \A i \in 1..Len(characters) :
             \/ SlotReachable(kb, ActiveLayout, characters[i])
             \/ /\ NeedsDakutenOf(probe.config, characters[i]) # Null
                /\ SlotReachable(kb, ActiveLayout,
                                 GetBaseCharOf(probe.config, characters[i]))

\* the last character of the alphabet weight table has been looked up on the
\* keyboard of the alphabet mode, and the lookup gave the right side of the ninth key
C39_Witness ==
    /\ probe.call = "lookup" /\ probe.config = GetDefaultConfig
    /\ kb.inputMode = "alphabet"
    /\ probe.char = CharactersOf(DefaultAlphabetWeights)[26]
    /\ probe.keyIndex = 8 /\ probe.direction = "right"

====
